---- MODULE Spec2Model ----
(***************************************************************************)
(* Adafruit_BQ25798: register-level driver of the BQ25798 battery charger. *)
(*                                                                         *)
(* The chip is a file of named registers holding bytes; the facade holds   *)
(* a device handle (i2c_dev) and turns every accessor call into one        *)
(* register read (getters) or one read-modify-write (setters).  Voltages   *)
(* and currents are C floats: they are modelled as IEEE-754 binary32       *)
(* values [m, e] (value m * 2^e, 2^23 <= |m| < 2^24, or m = 0) and every   *)
(* float operation rounds to nearest, ties to even, as the code's does.    *)
(*                                                                         *)
(* The client is a sketch that exercises one setting (focus) with one      *)
(* argument (arg, a decimal literal <<p, q>> = p/q for a linear setting,   *)
(* an ordinal for an enumerated one, a boolean for a flag).                *)
(***************************************************************************)
EXTENDS Integers, Sequences, FiniteSets, TLC

VARIABLES
  regs,     \* the chip: register name -> bytes, in the order they are transferred
  i2c_dev,  \* the facade's device handle, NULL or a live Adafruit_I2CDevice
  live,     \* the heap: handles allocated by new and not yet deleted
  alive,    \* the facade object exists (constructed, not yet destroyed)
  online,   \* the bus: a device acknowledges at the address begin() is given
  fault,    \* the bus: the transfers ("read", "write") that fail at present
  ctx,      \* execution contexts: where each is in a read-modify-write of its own
  focus,    \* the client: the setting its sketch exercises
  arg,      \* the client: the argument it passes to that setting's setter
  last,     \* the last call: its name, kind, result, bus transactions, target
            \* field, the chip before it (pre), the transfers that failed (nack)
            \* and the result of the call one hardware event earlier (seen)
  stored    \* the focus setter has succeeded and the hardware has not changed since

vars == <<regs, i2c_dev, live, alive, online, fault, ctx, focus, arg, last, stored>>

----------------------------------------------------------------------------
(* Bounds of the model. *)

NumPatterns == 4   \* register contents the hardware may present
MaxHandles == 2    \* addresses the allocator may hand out
GridMargin == 3    \* hundredths tried below and above a linear range
OrdMargin == 2     \* ordinals tried above the last value of a field
RawBits == 11      \* low bits of a register ranged over when decoding

NULL == 0          \* the handle of a facade that has not begun
Handles == 1..MaxHandles

\* the execution contexts that may share the device, and none of them busy
Contexts == {"A", "B"}
Idle == [c \in Contexts |-> [pc |-> "idle", val |-> 0, data |-> 0, raced |-> FALSE]]

----------------------------------------------------------------------------
(* C float arithmetic: IEEE-754 binary32, round to nearest even. *)

Pow2(n) == 2 ^ n

RECURSIVE BitLen(_)
BitLen(x) == IF x = 0 THEN 0 ELSE 1 + BitLen(x \div 2)

FZero == [m |-> 0, e |-> 0]

\* m * 2^e (plus a nonzero tail below m's last bit when sticky) rounded to 24 bits
FRound(m, e, sticky) ==
  IF m = 0 THEN FZero
  ELSE LET L == BitLen(m) IN
    IF L <= 24 THEN [m |-> m * Pow2(24 - L), e |-> e - (24 - L)]
    ELSE LET s == L - 24
             q == m \div Pow2(s)
             r == m % Pow2(s)
             half == Pow2(s - 1)
             up == r > half \/ (r = half /\ (sticky \/ q % 2 = 1))
             q1 == IF up THEN q + 1 ELSE q
         IN IF q1 = Pow2(24) THEN [m |-> Pow2(23), e |-> e + s + 1]
            ELSE [m |-> q1, e |-> e + s]

FNeg(a) == [m |-> -a.m, e |-> a.e]

\* (float)n for an integer n
FInt(n) == IF n < 0 THEN FNeg(FRound(-n, 0, FALSE)) ELSE FRound(n, 0, FALSE)

RECURSIVE LongDiv(_, _, _, _)
LongDiv(rem, d, n, acc) ==
  IF n = 0 THEN <<acc, rem>>
  ELSE IF 2 * rem >= d THEN LongDiv(2 * rem - d, d, n - 1, 2 * acc + 1)
       ELSE LongDiv(2 * rem, d, n - 1, 2 * acc)

\* a / b for b > 0
FDiv(a, b) ==
  IF a.m = 0 THEN FZero
  ELSE IF a.m < 0
    THEN LET i0 == IF -a.m >= b.m THEN 1 ELSE 0
             qr == LongDiv(-a.m - i0 * b.m, b.m, 25, i0)
         IN FNeg(FRound(qr[1], a.e - b.e - 25, qr[2] # 0))
    ELSE LET i0 == IF a.m >= b.m THEN 1 ELSE 0
             qr == LongDiv(a.m - i0 * b.m, b.m, 25, i0)
         IN FRound(qr[1], a.e - b.e - 25, qr[2] # 0)

\* r * b for an integer 0 <= r < 2^11 (converted to float exactly) and b >= 0
FMulInt(r, b) ==
  LET hi == b.m \div 4096
      lo == b.m % 4096
      H == r * hi + (r * lo) \div 4096
      L == (r * lo) % 4096
      h == BitLen(H)
      k == IF h + 12 <= 30 THEN 12 ELSE 30 - h
  IN FRound(H * Pow2(k) + L \div Pow2(12 - k), b.e + 12 - k, L % Pow2(12 - k) # 0)

\* a + b for a, b >= 0
FAdd(a, b) ==
  IF a.m = 0 THEN b ELSE IF b.m = 0 THEN a
  ELSE LET big == IF a.e >= b.e THEN a ELSE b
           small == IF a.e >= b.e THEN b ELSE a
           d == big.e - small.e
           B == IF d <= 27 THEN (small.m * 8) \div Pow2(d) ELSE 0
           lost == IF d <= 27 THEN (small.m * 8) % Pow2(d) # 0 ELSE TRUE
       IN FRound(big.m * 8 + B, big.e - 3, lost)

\* a - b for a >= b >= 0
FSub(a, b) ==
  IF b.m = 0 THEN a
  ELSE LET d == a.e - b.e
           B == IF d <= 27 THEN (b.m * 8) \div Pow2(d) ELSE 0
           lost == IF d <= 27 THEN (b.m * 8) % Pow2(d) # 0 ELSE TRUE
       IN FRound(a.m * 8 - B - (IF lost THEN 1 ELSE 0), a.e - 3, lost)

\* a < b
FLt(a, b) ==
  IF a.m < 0 /\ b.m >= 0 THEN TRUE
  ELSE IF a.m >= 0 /\ b.m < 0 THEN FALSE
  ELSE IF a.m < 0 THEN (a.e > b.e) \/ (a.e = b.e /\ a.m < b.m)
  ELSE IF b.m = 0 THEN FALSE
  ELSE IF a.m = 0 THEN TRUE
  ELSE (a.e < b.e) \/ (a.e = b.e /\ a.m < b.m)

\* (integer type)a for a >= 0: the fraction is discarded
FTrunc(a) ==
  IF a.e >= 0 THEN a.m * Pow2(a.e)
  ELSE IF -a.e > 30 THEN 0 ELSE a.m \div Pow2(-a.e)

\* the float a decimal literal p/q denotes: the binary32 value nearest to it
Lit(p, q) == FDiv(FInt(p), FInt(q))

----------------------------------------------------------------------------
(* The register map and the bus-access collaborator (Adafruit_BusIO).      *)

Registers == {
  "BQ25798_REG_MINIMAL_SYSTEM_VOLTAGE", "BQ25798_REG_CHARGE_VOLTAGE_LIMIT",
  "BQ25798_REG_CHARGE_CURRENT_LIMIT", "BQ25798_REG_INPUT_VOLTAGE_LIMIT",
  "BQ25798_REG_INPUT_CURRENT_LIMIT", "BQ25798_REG_PRECHARGE_CONTROL",
  "BQ25798_REG_TERMINATION_CONTROL", "BQ25798_REG_RECHARGE_CONTROL",
  "BQ25798_REG_VOTG_REGULATION", "BQ25798_REG_IOTG_REGULATION",
  "BQ25798_REG_TIMER_CONTROL", "BQ25798_REG_CHARGER_CONTROL_0",
  "BQ25798_REG_CHARGER_CONTROL_1", "BQ25798_REG_CHARGER_CONTROL_2",
  "BQ25798_REG_CHARGER_CONTROL_3", "BQ25798_REG_CHARGER_CONTROL_4",
  "BQ25798_REG_CHARGER_CONTROL_5", "BQ25798_REG_MPPT_CONTROL",
  "BQ25798_REG_TEMPERATURE_CONTROL", "BQ25798_REG_PART_INFORMATION" }

\* the registers the code opens with width 2 (MSBFIRST); every other has width 1
WideRegisters == {
  "BQ25798_REG_CHARGE_VOLTAGE_LIMIT", "BQ25798_REG_CHARGE_CURRENT_LIMIT",
  "BQ25798_REG_INPUT_CURRENT_LIMIT", "BQ25798_REG_VOTG_REGULATION" }

\* the largest enumerator of each enumeration the setters compare against
EnumMax == [
  BQ25798_VBAT_LOWV_71_4_PERCENT |-> 3, BQ25798_CELL_COUNT_4S |-> 3,
  BQ25798_TRECHG_2048MS |-> 3, BQ25798_PRECHG_TMR_0_5HR |-> 1,
  BQ25798_TOPOFF_TMR_45MIN |-> 3, BQ25798_CHG_TMR_24HR |-> 3,
  BQ25798_VBUS_BACKUP_100_PERCENT |-> 3, BQ25798_VAC_OVP_7V |-> 3,
  BQ25798_WDT_160S |-> 7, BQ25798_SDRV_SYSTEM_RESET |-> 3,
  BQ25798_WKUP_DLY_15MS |-> 1, BQ25798_PWM_FREQ_750KHZ |-> 1 ]

\* Adafruit_BusIO_Register::read(): the register as one unsigned value
RegisterRead(mem, reg, width, byteorder) ==
  IF width = 1 THEN mem[reg][1]
  ELSE IF byteorder = "MSBFIRST" THEN mem[reg][1] * 256 + mem[reg][2]
  ELSE mem[reg][2] * 256 + mem[reg][1]

\* Adafruit_BusIO_Register::write(value): the whole register is transferred
RegisterWrite(mem, reg, width, byteorder, value) ==
  [mem EXCEPT ![reg] =
     IF width = 1 THEN <<value % 256>>
     ELSE IF byteorder = "MSBFIRST" THEN <<(value \div 256) % 256, value % 256>>
     ELSE <<value % 256, (value \div 256) % 256>>]

\* Adafruit_BusIO_RegisterBits::read(): shift, then mask
BitsRead(mem, reg, width, byteorder, bits, shift) ==
  (RegisterRead(mem, reg, width, byteorder) \div Pow2(shift)) % Pow2(bits)

\* Adafruit_BusIO_RegisterBits::write(data): read, clear the field, or in the
\* masked data, write the register back
BitsWrite(mem, reg, width, byteorder, bits, shift, data) ==
  LET val == RegisterRead(mem, reg, width, byteorder)
      old == (val \div Pow2(shift)) % Pow2(bits)
  IN RegisterWrite(mem, reg, width, byteorder,
                   val - old * Pow2(shift) + (data % Pow2(bits)) * Pow2(shift))

BusRead(reg, width) == <<"read", reg, width>>
BusWrite(reg, width) == <<"write", reg, width>>
\* the address-only transfer by which Adafruit_I2CDevice::begin() detects the chip
BusProbe == <<"probe", "", 0>>
Field(reg, width, byteorder, bits, shift) ==
  [reg |-> reg, width |-> width, byteorder |-> byteorder, bits |-> bits, shift |-> shift]
NoField == Field("", 0, "", 0, 0)

----------------------------------------------------------------------------
(* The shapes every accessor follows.                                      *)

\* an accessor can run: the object exists, holds a handle, and the session
\* was opened to a chip that is there
Usable == alive /\ i2c_dev # NULL /\ online

\* what a read of each register delivers: the chip's contents, or all ones
\* (Adafruit_BusIO_Register::read() returns -1) while reads fail
Readable ==
  IF "read" \in fault
  THEN [r \in Registers |-> [i \in DOMAIN regs[r] |-> 255]]
  ELSE regs

\* the chip after a write that was to leave it as mem: unchanged while writes fail
Written(mem) == IF "write" \in fault THEN regs ELSE mem

\* the result of the call one hardware event earlier, carried over that event
Carried == IF last.kind = "hw" THEN last.seen ELSE <<>>

\* a call returns ret, having attempted the bus transactions bus, of which the
\* kinds in nack failed, having handed the values raw to a register write, and
\* left the chip as mem
Transferred(op, kind, ret, bus, field, mem, nack, raw) ==
  /\ regs' = mem
  /\ last' = [op |-> op, kind |-> kind, ret |-> ret, bus |-> bus,
              field |-> field, pre |-> regs, raw |-> raw, nack |-> nack,
              seen |-> Carried]
  /\ stored' = IF kind = "get" THEN stored
               ELSE IF kind = "set" /\ nack = {} THEN (stored \/ ret)
               ELSE FALSE
  /\ UNCHANGED <<i2c_dev, live, alive, online, fault, ctx, focus, arg>>

\* a call that hands no value of its own to a register write, or whose value
\* is not looked at
Returned(op, kind, ret, bus, field, mem, nack) ==
  Transferred(op, kind, ret, bus, field, mem, nack, <<>>)

\* a call on a bus whose transfers all succeed
Return(op, kind, ret, bus, field, mem) ==
  Returned(op, kind, ret, bus, field, mem, {})

\* a setter rejects its argument before touching the bus
Reject(op) == Return(op, "set", FALSE, <<>>, NoField, regs)

\* RegisterBits(&reg, bits, shift).write(data); return true: the result of the
\* transfers is not looked at
WriteBits(op, kind, reg, width, byteorder, bits, shift, data) ==
  Transferred(op, kind, TRUE, <<BusRead(reg, width), BusWrite(reg, width)>>,
              Field(reg, width, byteorder, bits, shift),
              Written([regs EXCEPT ![reg] =
                         BitsWrite(Readable, reg, width, byteorder, bits, shift, data)[reg]]),
              fault, <<data>>)

\* a setter's write of its field
SetBits(op, reg, width, byteorder, bits, shift, data) ==
  WriteBits(op, "set", reg, width, byteorder, bits, shift, data)

\* reg.write(value); return true: the register is written without being read
SetRegister(op, reg, width, byteorder, value) ==
  Transferred(op, "set", TRUE, <<BusWrite(reg, width)>>,
              Field(reg, width, byteorder, 8 * width, 0),
              Written(RegisterWrite(regs, reg, width, byteorder, value)),
              fault \cap {"write"}, <<value>>)

\* RegisterBits(&reg, bits, shift).read(), and what the getter makes of it
GetBits(op, reg, width, byteorder, bits, shift, value) ==
  Returned(op, "get", value, <<BusRead(reg, width)>>,
           Field(reg, width, byteorder, bits, shift), regs, fault \cap {"read"})

\* the raw field a getter reads
Raw(reg, width, byteorder, bits, shift) ==
  BitsRead(Readable, reg, width, byteorder, bits, shift)

\* the clamp of a converted value to the field's largest value
Clamp(reg_value, max) == IF reg_value > max THEN max ELSE reg_value
----------------------------------------------------------------------------
(* Faulty variants of the code, each a slip a maintainer could make.  The  *)
(* properties below fail when one of them replaces the original.           *)

\* a <= b
FLe(a, b) == ~FLt(b, a)

\* setVBatLowV that writes the shifted value without merging it into the register
setVBatLowV_clobber(threshold) ==
  /\ Usable
  /\ IF threshold > EnumMax.BQ25798_VBAT_LOWV_71_4_PERCENT
     THEN Reject("setVBatLowV")
     ELSE Return("setVBatLowV", "set", TRUE,
                 <<BusRead("BQ25798_REG_PRECHARGE_CONTROL", 1),
                   BusWrite("BQ25798_REG_PRECHARGE_CONTROL", 1)>>,
                 Field("BQ25798_REG_PRECHARGE_CONTROL", 1, "LSBFIRST", 2, 6),
                 RegisterWrite(regs, "BQ25798_REG_PRECHARGE_CONTROL", 1, "LSBFIRST",
                               (threshold % 4) * 64))

\* setOTGLimitA whose upper bound is exclusive
setOTGLimitA_exclusiveMax(current) ==
  /\ Usable
  /\ IF FLt(current, Lit(16, 100)) \/ FLe(Lit(336, 100), current)
     THEN Reject("setOTGLimitA")
     ELSE LET reg_value == Clamp(FTrunc(FDiv(current, Lit(4, 100))) % 256, 127)
          IN SetBits("setOTGLimitA", "BQ25798_REG_IOTG_REGULATION", 1, "LSBFIRST", 7, 0, reg_value)

\* setCellCount that writes first and validates afterwards
setCellCount_writeFirst(cellCount) ==
  /\ Usable
  /\ Return("setCellCount", "set", ~(cellCount > EnumMax.BQ25798_CELL_COUNT_4S),
            <<BusRead("BQ25798_REG_RECHARGE_CONTROL", 1),
              BusWrite("BQ25798_REG_RECHARGE_CONTROL", 1)>>,
            Field("BQ25798_REG_RECHARGE_CONTROL", 1, "LSBFIRST", 2, 6),
            BitsWrite(regs, "BQ25798_REG_RECHARGE_CONTROL", 1, "LSBFIRST", 2, 6, cellCount % 256))

\* getTerminationA that takes one bit too many as its field
getTerminationA_wide ==
  /\ Usable
  /\ LET reg_value == Raw("BQ25798_REG_TERMINATION_CONTROL", 1, "LSBFIRST", 6, 0)
     IN GetBits("getTerminationA", "BQ25798_REG_TERMINATION_CONTROL", 1, "LSBFIRST", 5, 0,
                FMulInt(reg_value, Lit(4, 100)))

\* setShipFETmode that places its field one bit too low
setShipFETmode_shift0(mode) ==
  /\ Usable
  /\ IF mode > EnumMax.BQ25798_SDRV_SYSTEM_RESET
     THEN Reject("setShipFETmode")
     ELSE SetBits("setShipFETmode", "BQ25798_REG_CHARGER_CONTROL_2", 1, "LSBFIRST", 2, 0,
                  mode % 256)

\* setACenable that forgets the bit is a disable bit
setACenable_direct(enable) ==
  /\ Usable
  /\ SetBits("setACenable", "BQ25798_REG_CHARGER_CONTROL_3", 1, "LSBFIRST", 1, 7,
             IF enable THEN 1 ELSE 0)

\* begin() outcome when the whole part-information byte is compared
BeginOutcome_wholeByte(mem, answers) ==
  LET part_info == RegisterRead(mem, "BQ25798_REG_PART_INFORMATION", 1, "LSBFIRST")
      info == BusRead("BQ25798_REG_PART_INFORMATION", 1)
      term == "BQ25798_REG_TERMINATION_CONTROL"
  IN IF ~answers
       THEN [ret |-> FALSE, bus |-> <<BusProbe>>, mem |-> mem]
     ELSE IF part_info # 24
       THEN [ret |-> FALSE, bus |-> <<BusProbe, info>>, mem |-> mem]
     ELSE [ret |-> TRUE,
           bus |-> <<BusProbe, info, BusRead(term, 1), BusWrite(term, 1)>>,
           mem |-> BitsWrite(mem, term, 1, "LSBFIRST", 1, 6, 1)]

\* begin() outcome when the reset is issued before the identity is looked at
BeginOutcome_resetOnMismatch(mem, answers) ==
  LET part_info == RegisterRead(mem, "BQ25798_REG_PART_INFORMATION", 1, "LSBFIRST")
      info == BusRead("BQ25798_REG_PART_INFORMATION", 1)
      term == "BQ25798_REG_TERMINATION_CONTROL"
  IN IF ~answers
       THEN [ret |-> FALSE, bus |-> <<BusProbe>>, mem |-> mem]
     ELSE [ret |-> (part_info \div 8) % 8 = 3,
           bus |-> <<BusProbe, info, BusRead(term, 1), BusWrite(term, 1)>>,
           mem |-> BitsWrite(mem, term, 1, "LSBFIRST", 1, 6, 1)]


\* begin() outcome when the reset is issued as soon as the session is open,
\* ahead of the identity check
BeginOutcome_resetFirst(mem, answers) ==
  LET part_info == RegisterRead(mem, "BQ25798_REG_PART_INFORMATION", 1, "LSBFIRST")
      info == BusRead("BQ25798_REG_PART_INFORMATION", 1)
      term == "BQ25798_REG_TERMINATION_CONTROL"
  IN IF ~answers
       THEN [ret |-> FALSE, bus |-> <<BusProbe>>, mem |-> mem]
     ELSE [ret |-> (part_info \div 8) % 8 = 3,
           bus |-> <<BusProbe, BusRead(term, 1), BusWrite(term, 1), info>>,
           mem |-> BitsWrite(mem, term, 1, "LSBFIRST", 1, 6, 1)]

\* reset() that reports the outcome of its register write
reset_checked ==
  /\ Usable
  /\ Returned("reset", "reset", "write" \notin fault,
              <<BusRead("BQ25798_REG_TERMINATION_CONTROL", 1),
                BusWrite("BQ25798_REG_TERMINATION_CONTROL", 1)>>,
              Field("BQ25798_REG_TERMINATION_CONTROL", 1, "LSBFIRST", 1, 6),
              Written([regs EXCEPT !["BQ25798_REG_TERMINATION_CONTROL"] =
                         BitsWrite(Readable, "BQ25798_REG_TERMINATION_CONTROL", 1,
                                   "LSBFIRST", 1, 6, 1)["BQ25798_REG_TERMINATION_CONTROL"]]),
              fault)

\* reset() that flips the reset bit instead of setting it
reset_toggle ==
  /\ Usable
  /\ WriteBits("reset", "reset", "BQ25798_REG_TERMINATION_CONTROL", 1, "LSBFIRST", 1, 6,
               1 - Raw("BQ25798_REG_TERMINATION_CONTROL", 1, "LSBFIRST", 1, 6))

\* getChargeLimitV that answers from the value it returned last time
getChargeLimitV_cached ==
  /\ Usable
  /\ IF Carried # <<>> /\ Carried[1] = "getChargeLimitV"
     THEN Returned("getChargeLimitV", "get", Carried[2], <<>>,
                   Field("BQ25798_REG_CHARGE_VOLTAGE_LIMIT", 2, "MSBFIRST", 11, 0), regs, {})
     ELSE LET reg_value == Raw("BQ25798_REG_CHARGE_VOLTAGE_LIMIT", 2, "MSBFIRST", 11, 0)
          IN GetBits("getChargeLimitV", "BQ25798_REG_CHARGE_VOLTAGE_LIMIT", 2, "MSBFIRST", 11, 0,
                     FMulInt(reg_value, Lit(1, 100)))

\* setChargeEnable that reports the outcome of its register write
setChargeEnable_checked(enable) ==
  /\ Usable
  /\ Returned("setChargeEnable", "set", "write" \notin fault,
              <<BusRead("BQ25798_REG_CHARGER_CONTROL_0", 1),
                BusWrite("BQ25798_REG_CHARGER_CONTROL_0", 1)>>,
              Field("BQ25798_REG_CHARGER_CONTROL_0", 1, "LSBFIRST", 1, 5),
              Written([regs EXCEPT !["BQ25798_REG_CHARGER_CONTROL_0"] =
                         BitsWrite(Readable, "BQ25798_REG_CHARGER_CONTROL_0", 1, "LSBFIRST",
                                   1, 5, IF enable THEN 1 ELSE 0)["BQ25798_REG_CHARGER_CONTROL_0"]]),
              fault)

\* setTerminationA that converts with the 10 mA step of the charge current
\* limit and its 9-bit maximum
setTerminationA_unscaled(current) ==
  /\ Usable
  /\ IF FLt(current, Lit(4, 100)) \/ FLt(Lit(10, 10), current)
     THEN Reject("setTerminationA")
     ELSE LET reg_value == Clamp(FTrunc(FDiv(current, Lit(1, 100))) % 256, 511)
          IN SetBits("setTerminationA", "BQ25798_REG_TERMINATION_CONTROL", 1, "LSBFIRST", 5, 0, reg_value)

\* setInputLimitA that declares its register least-significant byte first
setInputLimitA_lsbFirst(current) ==
  /\ Usable
  /\ IF FLt(current, Lit(1, 10)) \/ FLt(Lit(33, 10), current)
     THEN Reject("setInputLimitA")
     ELSE LET reg_value == Clamp(FTrunc(FDiv(current, Lit(1, 100))) % 65536, 511)
          IN SetBits("setInputLimitA", "BQ25798_REG_INPUT_CURRENT_LIMIT", 2, "LSBFIRST", 9, 0, reg_value)

\* getVINDPM_VOCpercent whose field starts one bit too high and sticks out of
\* the register
getVINDPM_VOCpercent_shift6 ==
  /\ Usable
  /\ LET reg_value == Raw("BQ25798_REG_MPPT_CONTROL", 1, "LSBFIRST", 3, 6)
     IN GetBits("getVINDPM_VOCpercent", "BQ25798_REG_MPPT_CONTROL", 1, "LSBFIRST", 3, 6,
                reg_value)

\* resetWDT that sets the bit below the watchdog reset bit
resetWDT_shift2 ==
  /\ Usable
  /\ SetBits("resetWDT", "BQ25798_REG_CHARGER_CONTROL_1", 1, "LSBFIRST", 1, 2, 1)

\* setTimerHalfRateEnable that writes bit 1, the low bit of the fast-charge
\* timer selection
setTimerHalfRateEnable_shift1(enable) ==
  /\ Usable
  /\ SetBits("setTimerHalfRateEnable", "BQ25798_REG_TIMER_CONTROL", 1, "LSBFIRST", 1, 1,
             IF enable THEN 1 ELSE 0)

\* setVOCdelay that writes a field one bit wider than the delay selection
setVOCdelay_wide(delay) ==
  /\ Usable
  /\ SetBits("setVOCdelay", "BQ25798_REG_MPPT_CONTROL", 1, "LSBFIRST", 3, 3,
             delay % 256)

\* setChargeLimitA that converts through an 8-bit integer
setChargeLimitA_uint8(current) ==
  /\ Usable
  /\ IF FLt(current, Lit(5, 100)) \/ FLt(Lit(50, 10), current)
     THEN Reject("setChargeLimitA")
     ELSE LET reg_value == Clamp(FTrunc(FDiv(current, Lit(1, 100))) % 256, 511)
          IN SetBits("setChargeLimitA", "BQ25798_REG_CHARGE_CURRENT_LIMIT", 2, "MSBFIRST", 9, 0, reg_value)
----------------------------------------------------------------------------
(* The accessors, in the order of the source.                              *)

getMinSystemV ==
  /\ Usable
  /\ LET reg_value == Raw("BQ25798_REG_MINIMAL_SYSTEM_VOLTAGE", 1, "LSBFIRST", 6, 0)
     IN GetBits("getMinSystemV", "BQ25798_REG_MINIMAL_SYSTEM_VOLTAGE", 1, "LSBFIRST", 6, 0,
                FAdd(FMulInt(reg_value, Lit(25, 100)), Lit(25, 10)))

setMinSystemV(voltage) ==
  /\ Usable
  /\ IF FLt(voltage, Lit(25, 10)) \/ FLt(Lit(160, 10), voltage)
     THEN Reject("setMinSystemV")
     ELSE LET reg_value == Clamp(FTrunc(FDiv(FSub(voltage, Lit(25, 10)), Lit(25, 100))) % 256, 63)
          IN SetBits("setMinSystemV", "BQ25798_REG_MINIMAL_SYSTEM_VOLTAGE", 1, "LSBFIRST", 6, 0, reg_value)

getChargeLimitV ==
  /\ Usable
  /\ LET reg_value == Raw("BQ25798_REG_CHARGE_VOLTAGE_LIMIT", 2, "MSBFIRST", 11, 0)
     IN GetBits("getChargeLimitV", "BQ25798_REG_CHARGE_VOLTAGE_LIMIT", 2, "MSBFIRST", 11, 0,
                FMulInt(reg_value, Lit(1, 100)))

setChargeLimitV(voltage) ==
  /\ Usable
  /\ IF FLt(voltage, Lit(30, 10)) \/ FLt(Lit(188, 10), voltage)
     THEN Reject("setChargeLimitV")
     ELSE LET reg_value == Clamp(FTrunc(FDiv(voltage, Lit(1, 100))) % 65536, 2047)
          IN SetBits("setChargeLimitV", "BQ25798_REG_CHARGE_VOLTAGE_LIMIT", 2, "MSBFIRST", 11, 0, reg_value)

getChargeLimitA ==
  /\ Usable
  /\ LET reg_value == Raw("BQ25798_REG_CHARGE_CURRENT_LIMIT", 2, "MSBFIRST", 9, 0)
     IN GetBits("getChargeLimitA", "BQ25798_REG_CHARGE_CURRENT_LIMIT", 2, "MSBFIRST", 9, 0,
                FMulInt(reg_value, Lit(1, 100)))

setChargeLimitA(current) ==
  /\ Usable
  /\ IF FLt(current, Lit(5, 100)) \/ FLt(Lit(50, 10), current)
     THEN Reject("setChargeLimitA")
     ELSE LET reg_value == Clamp(FTrunc(FDiv(current, Lit(1, 100))) % 65536, 511)
          IN SetBits("setChargeLimitA", "BQ25798_REG_CHARGE_CURRENT_LIMIT", 2, "MSBFIRST", 9, 0, reg_value)

getInputLimitV ==
  /\ Usable
  /\ LET reg_value == RegisterRead(Readable, "BQ25798_REG_INPUT_VOLTAGE_LIMIT", 1, "LSBFIRST")
     IN GetBits("getInputLimitV", "BQ25798_REG_INPUT_VOLTAGE_LIMIT", 1, "LSBFIRST", 8, 0,
                FMulInt(reg_value, Lit(1, 10)))

setInputLimitV(voltage) ==
  /\ Usable
  /\ IF FLt(voltage, Lit(36, 10)) \/ FLt(Lit(220, 10), voltage)
     THEN Reject("setInputLimitV")
     ELSE LET reg_value == Clamp(FTrunc(FDiv(voltage, Lit(1, 10))) % 256, 255)
          IN SetRegister("setInputLimitV", "BQ25798_REG_INPUT_VOLTAGE_LIMIT", 1, "LSBFIRST", reg_value)

getInputLimitA ==
  /\ Usable
  /\ LET reg_value == Raw("BQ25798_REG_INPUT_CURRENT_LIMIT", 2, "MSBFIRST", 9, 0)
     IN GetBits("getInputLimitA", "BQ25798_REG_INPUT_CURRENT_LIMIT", 2, "MSBFIRST", 9, 0,
                FMulInt(reg_value, Lit(1, 100)))

setInputLimitA(current) ==
  /\ Usable
  /\ IF FLt(current, Lit(1, 10)) \/ FLt(Lit(33, 10), current)
     THEN Reject("setInputLimitA")
     ELSE LET reg_value == Clamp(FTrunc(FDiv(current, Lit(1, 100))) % 65536, 511)
          IN SetBits("setInputLimitA", "BQ25798_REG_INPUT_CURRENT_LIMIT", 2, "MSBFIRST", 9, 0, reg_value)

getVBatLowV ==
  /\ Usable
  /\ LET reg_value == Raw("BQ25798_REG_PRECHARGE_CONTROL", 1, "LSBFIRST", 2, 6)
     IN GetBits("getVBatLowV", "BQ25798_REG_PRECHARGE_CONTROL", 1, "LSBFIRST", 2, 6,
                reg_value)

setVBatLowV(threshold) ==
  /\ Usable
  /\ IF threshold > EnumMax.BQ25798_VBAT_LOWV_71_4_PERCENT
     THEN Reject("setVBatLowV")
     ELSE SetBits("setVBatLowV", "BQ25798_REG_PRECHARGE_CONTROL", 1, "LSBFIRST", 2, 6,
                  threshold % 256)

getPrechargeLimitA ==
  /\ Usable
  /\ LET reg_value == Raw("BQ25798_REG_PRECHARGE_CONTROL", 1, "LSBFIRST", 6, 0)
     IN GetBits("getPrechargeLimitA", "BQ25798_REG_PRECHARGE_CONTROL", 1, "LSBFIRST", 6, 0,
                FMulInt(reg_value, Lit(4, 100)))

setPrechargeLimitA(current) ==
  /\ Usable
  /\ IF FLt(current, Lit(4, 100)) \/ FLt(Lit(20, 10), current)
     THEN Reject("setPrechargeLimitA")
     ELSE LET reg_value == Clamp(FTrunc(FDiv(current, Lit(4, 100))) % 256, 63)
          IN SetBits("setPrechargeLimitA", "BQ25798_REG_PRECHARGE_CONTROL", 1, "LSBFIRST", 6, 0, reg_value)

getStopOnWDT ==
  /\ Usable
  /\ LET reg_value == Raw("BQ25798_REG_TERMINATION_CONTROL", 1, "LSBFIRST", 1, 5)
     IN GetBits("getStopOnWDT", "BQ25798_REG_TERMINATION_CONTROL", 1, "LSBFIRST", 1, 5,
                reg_value = 1)

setStopOnWDT(stopOnWDT) ==
  /\ Usable
  /\ SetBits("setStopOnWDT", "BQ25798_REG_TERMINATION_CONTROL", 1, "LSBFIRST", 1, 5,
             IF stopOnWDT THEN 1 ELSE 0)

getTerminationA ==
  /\ Usable
  /\ LET reg_value == Raw("BQ25798_REG_TERMINATION_CONTROL", 1, "LSBFIRST", 5, 0)
     IN GetBits("getTerminationA", "BQ25798_REG_TERMINATION_CONTROL", 1, "LSBFIRST", 5, 0,
                FMulInt(reg_value, Lit(4, 100)))

setTerminationA(current) ==
  /\ Usable
  /\ IF FLt(current, Lit(4, 100)) \/ FLt(Lit(10, 10), current)
     THEN Reject("setTerminationA")
     ELSE LET reg_value == Clamp(FTrunc(FDiv(current, Lit(4, 100))) % 256, 31)
          IN SetBits("setTerminationA", "BQ25798_REG_TERMINATION_CONTROL", 1, "LSBFIRST", 5, 0, reg_value)

getCellCount ==
  /\ Usable
  /\ LET reg_value == Raw("BQ25798_REG_RECHARGE_CONTROL", 1, "LSBFIRST", 2, 6)
     IN GetBits("getCellCount", "BQ25798_REG_RECHARGE_CONTROL", 1, "LSBFIRST", 2, 6,
                reg_value)

setCellCount(cellCount) ==
  /\ Usable
  /\ IF cellCount > EnumMax.BQ25798_CELL_COUNT_4S
     THEN Reject("setCellCount")
     ELSE SetBits("setCellCount", "BQ25798_REG_RECHARGE_CONTROL", 1, "LSBFIRST", 2, 6,
                  cellCount % 256)

getRechargeDeglitchTime ==
  /\ Usable
  /\ LET reg_value == Raw("BQ25798_REG_RECHARGE_CONTROL", 1, "LSBFIRST", 2, 4)
     IN GetBits("getRechargeDeglitchTime", "BQ25798_REG_RECHARGE_CONTROL", 1, "LSBFIRST", 2, 4,
                reg_value)

setRechargeDeglitchTime(deglitchTime) ==
  /\ Usable
  /\ IF deglitchTime > EnumMax.BQ25798_TRECHG_2048MS
     THEN Reject("setRechargeDeglitchTime")
     ELSE SetBits("setRechargeDeglitchTime", "BQ25798_REG_RECHARGE_CONTROL", 1, "LSBFIRST", 2, 4,
                  deglitchTime % 256)

getRechargeThreshOffsetV ==
  /\ Usable
  /\ LET reg_value == Raw("BQ25798_REG_RECHARGE_CONTROL", 1, "LSBFIRST", 4, 0)
     IN GetBits("getRechargeThreshOffsetV", "BQ25798_REG_RECHARGE_CONTROL", 1, "LSBFIRST", 4, 0,
                FAdd(FMulInt(reg_value, Lit(5, 100)), Lit(5, 100)))

setRechargeThreshOffsetV(voltage) ==
  /\ Usable
  /\ IF FLt(voltage, Lit(5, 100)) \/ FLt(Lit(8, 10), voltage)
     THEN Reject("setRechargeThreshOffsetV")
     ELSE LET reg_value == Clamp(FTrunc(FDiv(FSub(voltage, Lit(5, 100)), Lit(5, 100))) % 256, 15)
          IN SetBits("setRechargeThreshOffsetV", "BQ25798_REG_RECHARGE_CONTROL", 1, "LSBFIRST", 4, 0, reg_value)

getOTGV ==
  /\ Usable
  /\ LET reg_value == Raw("BQ25798_REG_VOTG_REGULATION", 2, "MSBFIRST", 11, 0)
     IN GetBits("getOTGV", "BQ25798_REG_VOTG_REGULATION", 2, "MSBFIRST", 11, 0,
                FAdd(FMulInt(reg_value, Lit(1, 100)), Lit(28, 10)))

setOTGV(voltage) ==
  /\ Usable
  /\ IF FLt(voltage, Lit(28, 10)) \/ FLt(Lit(220, 10), voltage)
     THEN Reject("setOTGV")
     ELSE LET reg_value == Clamp(FTrunc(FDiv(FSub(voltage, Lit(28, 10)), Lit(1, 100))) % 65536, 2047)
          IN SetBits("setOTGV", "BQ25798_REG_VOTG_REGULATION", 2, "MSBFIRST", 11, 0, reg_value)

getPrechargeTimer ==
  /\ Usable
  /\ LET reg_value == Raw("BQ25798_REG_IOTG_REGULATION", 1, "LSBFIRST", 1, 7)
     IN GetBits("getPrechargeTimer", "BQ25798_REG_IOTG_REGULATION", 1, "LSBFIRST", 1, 7,
                reg_value)

setPrechargeTimer(timer) ==
  /\ Usable
  /\ IF timer > EnumMax.BQ25798_PRECHG_TMR_0_5HR
     THEN Reject("setPrechargeTimer")
     ELSE SetBits("setPrechargeTimer", "BQ25798_REG_IOTG_REGULATION", 1, "LSBFIRST", 1, 7,
                  timer % 256)

getOTGLimitA ==
  /\ Usable
  /\ LET reg_value == Raw("BQ25798_REG_IOTG_REGULATION", 1, "LSBFIRST", 7, 0)
     IN GetBits("getOTGLimitA", "BQ25798_REG_IOTG_REGULATION", 1, "LSBFIRST", 7, 0,
                FMulInt(reg_value, Lit(4, 100)))

setOTGLimitA(current) ==
  /\ Usable
  /\ IF FLt(current, Lit(16, 100)) \/ FLt(Lit(336, 100), current)
     THEN Reject("setOTGLimitA")
     ELSE LET reg_value == Clamp(FTrunc(FDiv(current, Lit(4, 100))) % 256, 127)
          IN SetBits("setOTGLimitA", "BQ25798_REG_IOTG_REGULATION", 1, "LSBFIRST", 7, 0, reg_value)

getTopOffTimer ==
  /\ Usable
  /\ LET reg_value == Raw("BQ25798_REG_TIMER_CONTROL", 1, "LSBFIRST", 2, 6)
     IN GetBits("getTopOffTimer", "BQ25798_REG_TIMER_CONTROL", 1, "LSBFIRST", 2, 6,
                reg_value)

setTopOffTimer(timer) ==
  /\ Usable
  /\ IF timer > EnumMax.BQ25798_TOPOFF_TMR_45MIN
     THEN Reject("setTopOffTimer")
     ELSE SetBits("setTopOffTimer", "BQ25798_REG_TIMER_CONTROL", 1, "LSBFIRST", 2, 6,
                  timer % 256)

getTrickleChargeTimerEnable ==
  /\ Usable
  /\ LET reg_value == Raw("BQ25798_REG_TIMER_CONTROL", 1, "LSBFIRST", 1, 5)
     IN GetBits("getTrickleChargeTimerEnable", "BQ25798_REG_TIMER_CONTROL", 1, "LSBFIRST", 1, 5,
                reg_value = 1)

setTrickleChargeTimerEnable(enable) ==
  /\ Usable
  /\ SetBits("setTrickleChargeTimerEnable", "BQ25798_REG_TIMER_CONTROL", 1, "LSBFIRST", 1, 5,
             IF enable THEN 1 ELSE 0)

getPrechargeTimerEnable ==
  /\ Usable
  /\ LET reg_value == Raw("BQ25798_REG_TIMER_CONTROL", 1, "LSBFIRST", 1, 4)
     IN GetBits("getPrechargeTimerEnable", "BQ25798_REG_TIMER_CONTROL", 1, "LSBFIRST", 1, 4,
                reg_value = 1)

setPrechargeTimerEnable(enable) ==
  /\ Usable
  /\ SetBits("setPrechargeTimerEnable", "BQ25798_REG_TIMER_CONTROL", 1, "LSBFIRST", 1, 4,
             IF enable THEN 1 ELSE 0)

getFastChargeTimerEnable ==
  /\ Usable
  /\ LET reg_value == Raw("BQ25798_REG_TIMER_CONTROL", 1, "LSBFIRST", 1, 3)
     IN GetBits("getFastChargeTimerEnable", "BQ25798_REG_TIMER_CONTROL", 1, "LSBFIRST", 1, 3,
                reg_value = 1)

setFastChargeTimerEnable(enable) ==
  /\ Usable
  /\ SetBits("setFastChargeTimerEnable", "BQ25798_REG_TIMER_CONTROL", 1, "LSBFIRST", 1, 3,
             IF enable THEN 1 ELSE 0)

getFastChargeTimer ==
  /\ Usable
  /\ LET reg_value == Raw("BQ25798_REG_TIMER_CONTROL", 1, "LSBFIRST", 2, 1)
     IN GetBits("getFastChargeTimer", "BQ25798_REG_TIMER_CONTROL", 1, "LSBFIRST", 2, 1,
                reg_value)

setFastChargeTimer(timer) ==
  /\ Usable
  /\ IF timer > EnumMax.BQ25798_CHG_TMR_24HR
     THEN Reject("setFastChargeTimer")
     ELSE SetBits("setFastChargeTimer", "BQ25798_REG_TIMER_CONTROL", 1, "LSBFIRST", 2, 1,
                  timer % 256)

getTimerHalfRateEnable ==
  /\ Usable
  /\ LET reg_value == Raw("BQ25798_REG_TIMER_CONTROL", 1, "LSBFIRST", 1, 0)
     IN GetBits("getTimerHalfRateEnable", "BQ25798_REG_TIMER_CONTROL", 1, "LSBFIRST", 1, 0,
                reg_value = 1)

setTimerHalfRateEnable(enable) ==
  /\ Usable
  /\ SetBits("setTimerHalfRateEnable", "BQ25798_REG_TIMER_CONTROL", 1, "LSBFIRST", 1, 0,
             IF enable THEN 1 ELSE 0)

getAutoOVPBattDischarge ==
  /\ Usable
  /\ LET reg_value == Raw("BQ25798_REG_CHARGER_CONTROL_0", 1, "LSBFIRST", 1, 7)
     IN GetBits("getAutoOVPBattDischarge", "BQ25798_REG_CHARGER_CONTROL_0", 1, "LSBFIRST", 1, 7,
                reg_value = 1)

setAutoOVPBattDischarge(enable) ==
  /\ Usable
  /\ SetBits("setAutoOVPBattDischarge", "BQ25798_REG_CHARGER_CONTROL_0", 1, "LSBFIRST", 1, 7,
             IF enable THEN 1 ELSE 0)

getForceBattDischarge ==
  /\ Usable
  /\ LET reg_value == Raw("BQ25798_REG_CHARGER_CONTROL_0", 1, "LSBFIRST", 1, 6)
     IN GetBits("getForceBattDischarge", "BQ25798_REG_CHARGER_CONTROL_0", 1, "LSBFIRST", 1, 6,
                reg_value = 1)

setForceBattDischarge(enable) ==
  /\ Usable
  /\ SetBits("setForceBattDischarge", "BQ25798_REG_CHARGER_CONTROL_0", 1, "LSBFIRST", 1, 6,
             IF enable THEN 1 ELSE 0)

getChargeEnable ==
  /\ Usable
  /\ LET reg_value == Raw("BQ25798_REG_CHARGER_CONTROL_0", 1, "LSBFIRST", 1, 5)
     IN GetBits("getChargeEnable", "BQ25798_REG_CHARGER_CONTROL_0", 1, "LSBFIRST", 1, 5,
                reg_value = 1)

setChargeEnable(enable) ==
  /\ Usable
  /\ SetBits("setChargeEnable", "BQ25798_REG_CHARGER_CONTROL_0", 1, "LSBFIRST", 1, 5,
             IF enable THEN 1 ELSE 0)

getICOEnable ==
  /\ Usable
  /\ LET reg_value == Raw("BQ25798_REG_CHARGER_CONTROL_0", 1, "LSBFIRST", 1, 4)
     IN GetBits("getICOEnable", "BQ25798_REG_CHARGER_CONTROL_0", 1, "LSBFIRST", 1, 4,
                reg_value = 1)

setICOEnable(enable) ==
  /\ Usable
  /\ SetBits("setICOEnable", "BQ25798_REG_CHARGER_CONTROL_0", 1, "LSBFIRST", 1, 4,
             IF enable THEN 1 ELSE 0)

getForceICO ==
  /\ Usable
  /\ LET reg_value == Raw("BQ25798_REG_CHARGER_CONTROL_0", 1, "LSBFIRST", 1, 3)
     IN GetBits("getForceICO", "BQ25798_REG_CHARGER_CONTROL_0", 1, "LSBFIRST", 1, 3,
                reg_value = 1)

setForceICO(enable) ==
  /\ Usable
  /\ SetBits("setForceICO", "BQ25798_REG_CHARGER_CONTROL_0", 1, "LSBFIRST", 1, 3,
             IF enable THEN 1 ELSE 0)

getHIZMode ==
  /\ Usable
  /\ LET reg_value == Raw("BQ25798_REG_CHARGER_CONTROL_0", 1, "LSBFIRST", 1, 2)
     IN GetBits("getHIZMode", "BQ25798_REG_CHARGER_CONTROL_0", 1, "LSBFIRST", 1, 2,
                reg_value = 1)

setHIZMode(enable) ==
  /\ Usable
  /\ SetBits("setHIZMode", "BQ25798_REG_CHARGER_CONTROL_0", 1, "LSBFIRST", 1, 2,
             IF enable THEN 1 ELSE 0)

getTerminationEnable ==
  /\ Usable
  /\ LET reg_value == Raw("BQ25798_REG_CHARGER_CONTROL_0", 1, "LSBFIRST", 1, 1)
     IN GetBits("getTerminationEnable", "BQ25798_REG_CHARGER_CONTROL_0", 1, "LSBFIRST", 1, 1,
                reg_value = 1)

setTerminationEnable(enable) ==
  /\ Usable
  /\ SetBits("setTerminationEnable", "BQ25798_REG_CHARGER_CONTROL_0", 1, "LSBFIRST", 1, 1,
             IF enable THEN 1 ELSE 0)

getBackupModeEnable ==
  /\ Usable
  /\ LET reg_value == Raw("BQ25798_REG_CHARGER_CONTROL_0", 1, "LSBFIRST", 1, 0)
     IN GetBits("getBackupModeEnable", "BQ25798_REG_CHARGER_CONTROL_0", 1, "LSBFIRST", 1, 0,
                reg_value = 1)

setBackupModeEnable(enable) ==
  /\ Usable
  /\ SetBits("setBackupModeEnable", "BQ25798_REG_CHARGER_CONTROL_0", 1, "LSBFIRST", 1, 0,
             IF enable THEN 1 ELSE 0)

getBackupModeThresh ==
  /\ Usable
  /\ LET reg_value == Raw("BQ25798_REG_CHARGER_CONTROL_1", 1, "LSBFIRST", 2, 6)
     IN GetBits("getBackupModeThresh", "BQ25798_REG_CHARGER_CONTROL_1", 1, "LSBFIRST", 2, 6,
                reg_value)

setBackupModeThresh(threshold) ==
  /\ Usable
  /\ IF threshold > EnumMax.BQ25798_VBUS_BACKUP_100_PERCENT
     THEN Reject("setBackupModeThresh")
     ELSE SetBits("setBackupModeThresh", "BQ25798_REG_CHARGER_CONTROL_1", 1, "LSBFIRST", 2, 6,
                  threshold % 256)

getVACOVP ==
  /\ Usable
  /\ LET reg_value == Raw("BQ25798_REG_CHARGER_CONTROL_1", 1, "LSBFIRST", 2, 4)
     IN GetBits("getVACOVP", "BQ25798_REG_CHARGER_CONTROL_1", 1, "LSBFIRST", 2, 4,
                reg_value)

setVACOVP(threshold) ==
  /\ Usable
  /\ IF threshold > EnumMax.BQ25798_VAC_OVP_7V
     THEN Reject("setVACOVP")
     ELSE SetBits("setVACOVP", "BQ25798_REG_CHARGER_CONTROL_1", 1, "LSBFIRST", 2, 4,
                  threshold % 256)

resetWDT ==
  /\ Usable
  /\ SetBits("resetWDT", "BQ25798_REG_CHARGER_CONTROL_1", 1, "LSBFIRST", 1, 3, 1)

getWDT ==
  /\ Usable
  /\ LET reg_value == Raw("BQ25798_REG_CHARGER_CONTROL_1", 1, "LSBFIRST", 3, 0)
     IN GetBits("getWDT", "BQ25798_REG_CHARGER_CONTROL_1", 1, "LSBFIRST", 3, 0,
                reg_value)

setWDT(timer) ==
  /\ Usable
  /\ IF timer > EnumMax.BQ25798_WDT_160S
     THEN Reject("setWDT")
     ELSE SetBits("setWDT", "BQ25798_REG_CHARGER_CONTROL_1", 1, "LSBFIRST", 3, 0,
                  timer % 256)

getForceDPinsDetection ==
  /\ Usable
  /\ LET reg_value == Raw("BQ25798_REG_CHARGER_CONTROL_2", 1, "LSBFIRST", 1, 7)
     IN GetBits("getForceDPinsDetection", "BQ25798_REG_CHARGER_CONTROL_2", 1, "LSBFIRST", 1, 7,
                reg_value = 1)

setForceDPinsDetection(enable) ==
  /\ Usable
  /\ SetBits("setForceDPinsDetection", "BQ25798_REG_CHARGER_CONTROL_2", 1, "LSBFIRST", 1, 7,
             IF enable THEN 1 ELSE 0)

getAutoDPinsDetection ==
  /\ Usable
  /\ LET reg_value == Raw("BQ25798_REG_CHARGER_CONTROL_2", 1, "LSBFIRST", 1, 6)
     IN GetBits("getAutoDPinsDetection", "BQ25798_REG_CHARGER_CONTROL_2", 1, "LSBFIRST", 1, 6,
                reg_value = 1)

setAutoDPinsDetection(enable) ==
  /\ Usable
  /\ SetBits("setAutoDPinsDetection", "BQ25798_REG_CHARGER_CONTROL_2", 1, "LSBFIRST", 1, 6,
             IF enable THEN 1 ELSE 0)

getHVDCP12VEnable ==
  /\ Usable
  /\ LET reg_value == Raw("BQ25798_REG_CHARGER_CONTROL_2", 1, "LSBFIRST", 1, 5)
     IN GetBits("getHVDCP12VEnable", "BQ25798_REG_CHARGER_CONTROL_2", 1, "LSBFIRST", 1, 5,
                reg_value = 1)

setHVDCP12VEnable(enable) ==
  /\ Usable
  /\ SetBits("setHVDCP12VEnable", "BQ25798_REG_CHARGER_CONTROL_2", 1, "LSBFIRST", 1, 5,
             IF enable THEN 1 ELSE 0)

getHVDCP9VEnable ==
  /\ Usable
  /\ LET reg_value == Raw("BQ25798_REG_CHARGER_CONTROL_2", 1, "LSBFIRST", 1, 4)
     IN GetBits("getHVDCP9VEnable", "BQ25798_REG_CHARGER_CONTROL_2", 1, "LSBFIRST", 1, 4,
                reg_value = 1)

setHVDCP9VEnable(enable) ==
  /\ Usable
  /\ SetBits("setHVDCP9VEnable", "BQ25798_REG_CHARGER_CONTROL_2", 1, "LSBFIRST", 1, 4,
             IF enable THEN 1 ELSE 0)

getHVDCPEnable ==
  /\ Usable
  /\ LET reg_value == Raw("BQ25798_REG_CHARGER_CONTROL_2", 1, "LSBFIRST", 1, 3)
     IN GetBits("getHVDCPEnable", "BQ25798_REG_CHARGER_CONTROL_2", 1, "LSBFIRST", 1, 3,
                reg_value = 1)

setHVDCPEnable(enable) ==
  /\ Usable
  /\ SetBits("setHVDCPEnable", "BQ25798_REG_CHARGER_CONTROL_2", 1, "LSBFIRST", 1, 3,
             IF enable THEN 1 ELSE 0)

getShipFETmode ==
  /\ Usable
  /\ LET reg_value == Raw("BQ25798_REG_CHARGER_CONTROL_2", 1, "LSBFIRST", 2, 1)
     IN GetBits("getShipFETmode", "BQ25798_REG_CHARGER_CONTROL_2", 1, "LSBFIRST", 2, 1,
                reg_value)

setShipFETmode(mode) ==
  /\ Usable
  /\ IF mode > EnumMax.BQ25798_SDRV_SYSTEM_RESET
     THEN Reject("setShipFETmode")
     ELSE SetBits("setShipFETmode", "BQ25798_REG_CHARGER_CONTROL_2", 1, "LSBFIRST", 2, 1,
                  mode % 256)

getShipFET10sDelay ==
  /\ Usable
  /\ LET reg_value == Raw("BQ25798_REG_CHARGER_CONTROL_2", 1, "LSBFIRST", 1, 0)
     IN GetBits("getShipFET10sDelay", "BQ25798_REG_CHARGER_CONTROL_2", 1, "LSBFIRST", 1, 0,
                reg_value = 1)

setShipFET10sDelay(enable) ==
  /\ Usable
  /\ SetBits("setShipFET10sDelay", "BQ25798_REG_CHARGER_CONTROL_2", 1, "LSBFIRST", 1, 0,
             IF enable THEN 1 ELSE 0)

getACenable ==
  /\ Usable
  /\ LET reg_value == Raw("BQ25798_REG_CHARGER_CONTROL_3", 1, "LSBFIRST", 1, 7)
     IN GetBits("getACenable", "BQ25798_REG_CHARGER_CONTROL_3", 1, "LSBFIRST", 1, 7,
                reg_value = 0)

setACenable(enable) ==
  /\ Usable
  /\ SetBits("setACenable", "BQ25798_REG_CHARGER_CONTROL_3", 1, "LSBFIRST", 1, 7,
             IF enable THEN 0 ELSE 1)

getOTGenable ==
  /\ Usable
  /\ LET reg_value == Raw("BQ25798_REG_CHARGER_CONTROL_3", 1, "LSBFIRST", 1, 6)
     IN GetBits("getOTGenable", "BQ25798_REG_CHARGER_CONTROL_3", 1, "LSBFIRST", 1, 6,
                reg_value = 1)

setOTGenable(enable) ==
  /\ Usable
  /\ SetBits("setOTGenable", "BQ25798_REG_CHARGER_CONTROL_3", 1, "LSBFIRST", 1, 6,
             IF enable THEN 1 ELSE 0)

getOTGPFM ==
  /\ Usable
  /\ LET reg_value == Raw("BQ25798_REG_CHARGER_CONTROL_3", 1, "LSBFIRST", 1, 5)
     IN GetBits("getOTGPFM", "BQ25798_REG_CHARGER_CONTROL_3", 1, "LSBFIRST", 1, 5,
                reg_value = 0)

setOTGPFM(enable) ==
  /\ Usable
  /\ SetBits("setOTGPFM", "BQ25798_REG_CHARGER_CONTROL_3", 1, "LSBFIRST", 1, 5,
             IF enable THEN 0 ELSE 1)

getForwardPFM ==
  /\ Usable
  /\ LET reg_value == Raw("BQ25798_REG_CHARGER_CONTROL_3", 1, "LSBFIRST", 1, 4)
     IN GetBits("getForwardPFM", "BQ25798_REG_CHARGER_CONTROL_3", 1, "LSBFIRST", 1, 4,
                reg_value = 0)

setForwardPFM(enable) ==
  /\ Usable
  /\ SetBits("setForwardPFM", "BQ25798_REG_CHARGER_CONTROL_3", 1, "LSBFIRST", 1, 4,
             IF enable THEN 0 ELSE 1)

getShipWakeupDelay ==
  /\ Usable
  /\ LET reg_value == Raw("BQ25798_REG_CHARGER_CONTROL_3", 1, "LSBFIRST", 1, 3)
     IN GetBits("getShipWakeupDelay", "BQ25798_REG_CHARGER_CONTROL_3", 1, "LSBFIRST", 1, 3,
                reg_value)

setShipWakeupDelay(delay) ==
  /\ Usable
  /\ IF delay > EnumMax.BQ25798_WKUP_DLY_15MS
     THEN Reject("setShipWakeupDelay")
     ELSE SetBits("setShipWakeupDelay", "BQ25798_REG_CHARGER_CONTROL_3", 1, "LSBFIRST", 1, 3,
                  delay % 256)

getBATFETLDOprecharge ==
  /\ Usable
  /\ LET reg_value == Raw("BQ25798_REG_CHARGER_CONTROL_3", 1, "LSBFIRST", 1, 2)
     IN GetBits("getBATFETLDOprecharge", "BQ25798_REG_CHARGER_CONTROL_3", 1, "LSBFIRST", 1, 2,
                reg_value = 0)

setBATFETLDOprecharge(enable) ==
  /\ Usable
  /\ SetBits("setBATFETLDOprecharge", "BQ25798_REG_CHARGER_CONTROL_3", 1, "LSBFIRST", 1, 2,
             IF enable THEN 0 ELSE 1)

getOTGOOA ==
  /\ Usable
  /\ LET reg_value == Raw("BQ25798_REG_CHARGER_CONTROL_3", 1, "LSBFIRST", 1, 1)
     IN GetBits("getOTGOOA", "BQ25798_REG_CHARGER_CONTROL_3", 1, "LSBFIRST", 1, 1,
                reg_value = 0)

setOTGOOA(enable) ==
  /\ Usable
  /\ SetBits("setOTGOOA", "BQ25798_REG_CHARGER_CONTROL_3", 1, "LSBFIRST", 1, 1,
             IF enable THEN 0 ELSE 1)

getForwardOOA ==
  /\ Usable
  /\ LET reg_value == Raw("BQ25798_REG_CHARGER_CONTROL_3", 1, "LSBFIRST", 1, 0)
     IN GetBits("getForwardOOA", "BQ25798_REG_CHARGER_CONTROL_3", 1, "LSBFIRST", 1, 0,
                reg_value = 0)

setForwardOOA(enable) ==
  /\ Usable
  /\ SetBits("setForwardOOA", "BQ25798_REG_CHARGER_CONTROL_3", 1, "LSBFIRST", 1, 0,
             IF enable THEN 0 ELSE 1)

getACDRV2enable ==
  /\ Usable
  /\ LET reg_value == Raw("BQ25798_REG_CHARGER_CONTROL_4", 1, "LSBFIRST", 1, 7)
     IN GetBits("getACDRV2enable", "BQ25798_REG_CHARGER_CONTROL_4", 1, "LSBFIRST", 1, 7,
                reg_value = 1)

setACDRV2enable(enable) ==
  /\ Usable
  /\ SetBits("setACDRV2enable", "BQ25798_REG_CHARGER_CONTROL_4", 1, "LSBFIRST", 1, 7,
             IF enable THEN 1 ELSE 0)

getACDRV1enable ==
  /\ Usable
  /\ LET reg_value == Raw("BQ25798_REG_CHARGER_CONTROL_4", 1, "LSBFIRST", 1, 6)
     IN GetBits("getACDRV1enable", "BQ25798_REG_CHARGER_CONTROL_4", 1, "LSBFIRST", 1, 6,
                reg_value = 1)

setACDRV1enable(enable) ==
  /\ Usable
  /\ SetBits("setACDRV1enable", "BQ25798_REG_CHARGER_CONTROL_4", 1, "LSBFIRST", 1, 6,
             IF enable THEN 1 ELSE 0)

getPWMFrequency ==
  /\ Usable
  /\ LET reg_value == Raw("BQ25798_REG_CHARGER_CONTROL_4", 1, "LSBFIRST", 1, 5)
     IN GetBits("getPWMFrequency", "BQ25798_REG_CHARGER_CONTROL_4", 1, "LSBFIRST", 1, 5,
                reg_value)

setPWMFrequency(frequency) ==
  /\ Usable
  /\ IF frequency > EnumMax.BQ25798_PWM_FREQ_750KHZ
     THEN Reject("setPWMFrequency")
     ELSE SetBits("setPWMFrequency", "BQ25798_REG_CHARGER_CONTROL_4", 1, "LSBFIRST", 1, 5,
                  frequency % 256)

getStatPinEnable ==
  /\ Usable
  /\ LET reg_value == Raw("BQ25798_REG_CHARGER_CONTROL_4", 1, "LSBFIRST", 1, 4)
     IN GetBits("getStatPinEnable", "BQ25798_REG_CHARGER_CONTROL_4", 1, "LSBFIRST", 1, 4,
                reg_value = 0)

setStatPinEnable(enable) ==
  /\ Usable
  /\ SetBits("setStatPinEnable", "BQ25798_REG_CHARGER_CONTROL_4", 1, "LSBFIRST", 1, 4,
             IF enable THEN 0 ELSE 1)

getVSYSshortProtect ==
  /\ Usable
  /\ LET reg_value == Raw("BQ25798_REG_CHARGER_CONTROL_4", 1, "LSBFIRST", 1, 3)
     IN GetBits("getVSYSshortProtect", "BQ25798_REG_CHARGER_CONTROL_4", 1, "LSBFIRST", 1, 3,
                reg_value = 0)

setVSYSshortProtect(enable) ==
  /\ Usable
  /\ SetBits("setVSYSshortProtect", "BQ25798_REG_CHARGER_CONTROL_4", 1, "LSBFIRST", 1, 3,
             IF enable THEN 0 ELSE 1)

getVOTG_UVPProtect ==
  /\ Usable
  /\ LET reg_value == Raw("BQ25798_REG_CHARGER_CONTROL_4", 1, "LSBFIRST", 1, 2)
     IN GetBits("getVOTG_UVPProtect", "BQ25798_REG_CHARGER_CONTROL_4", 1, "LSBFIRST", 1, 2,
                reg_value = 0)

setVOTG_UVPProtect(enable) ==
  /\ Usable
  /\ SetBits("setVOTG_UVPProtect", "BQ25798_REG_CHARGER_CONTROL_4", 1, "LSBFIRST", 1, 2,
             IF enable THEN 0 ELSE 1)

setVINDPMdetection(enable) ==
  /\ Usable
  /\ SetBits("setVINDPMdetection", "BQ25798_REG_CHARGER_CONTROL_4", 1, "LSBFIRST", 1, 1,
             IF enable THEN 1 ELSE 0)

getVINDPMdetection ==
  /\ Usable
  /\ LET reg_value == Raw("BQ25798_REG_CHARGER_CONTROL_4", 1, "LSBFIRST", 1, 1)
     IN GetBits("getVINDPMdetection", "BQ25798_REG_CHARGER_CONTROL_4", 1, "LSBFIRST", 1, 1,
                reg_value = 1)

getIBUS_OCPenable ==
  /\ Usable
  /\ LET reg_value == Raw("BQ25798_REG_CHARGER_CONTROL_4", 1, "LSBFIRST", 1, 0)
     IN GetBits("getIBUS_OCPenable", "BQ25798_REG_CHARGER_CONTROL_4", 1, "LSBFIRST", 1, 0,
                reg_value = 1)

setIBUS_OCPenable(enable) ==
  /\ Usable
  /\ SetBits("setIBUS_OCPenable", "BQ25798_REG_CHARGER_CONTROL_4", 1, "LSBFIRST", 1, 0,
             IF enable THEN 1 ELSE 0)

getShipFETpresent ==
  /\ Usable
  /\ LET reg_value == Raw("BQ25798_REG_CHARGER_CONTROL_5", 1, "LSBFIRST", 1, 7)
     IN GetBits("getShipFETpresent", "BQ25798_REG_CHARGER_CONTROL_5", 1, "LSBFIRST", 1, 7,
                reg_value # 0)

setShipFETpresent(enable) ==
  /\ Usable
  /\ SetBits("setShipFETpresent", "BQ25798_REG_CHARGER_CONTROL_5", 1, "LSBFIRST", 1, 7,
             IF enable THEN 1 ELSE 0)

getBatDischargeSenseEnable ==
  /\ Usable
  /\ LET reg_value == Raw("BQ25798_REG_CHARGER_CONTROL_5", 1, "LSBFIRST", 1, 5)
     IN GetBits("getBatDischargeSenseEnable", "BQ25798_REG_CHARGER_CONTROL_5", 1, "LSBFIRST", 1, 5,
                reg_value # 0)

setBatDischargeSenseEnable(enable) ==
  /\ Usable
  /\ SetBits("setBatDischargeSenseEnable", "BQ25798_REG_CHARGER_CONTROL_5", 1, "LSBFIRST", 1, 5,
             IF enable THEN 1 ELSE 0)

getBatDischargeA ==
  /\ Usable
  /\ LET reg_value == Raw("BQ25798_REG_CHARGER_CONTROL_5", 1, "LSBFIRST", 2, 3)
     IN GetBits("getBatDischargeA", "BQ25798_REG_CHARGER_CONTROL_5", 1, "LSBFIRST", 2, 3,
                reg_value)

setBatDischargeA(current) ==
  /\ Usable
  /\ SetBits("setBatDischargeA", "BQ25798_REG_CHARGER_CONTROL_5", 1, "LSBFIRST", 2, 3,
             current % 256)

getIINDPMenable ==
  /\ Usable
  /\ LET reg_value == Raw("BQ25798_REG_CHARGER_CONTROL_5", 1, "LSBFIRST", 1, 2)
     IN GetBits("getIINDPMenable", "BQ25798_REG_CHARGER_CONTROL_5", 1, "LSBFIRST", 1, 2,
                reg_value # 0)

setIINDPMenable(enable) ==
  /\ Usable
  /\ SetBits("setIINDPMenable", "BQ25798_REG_CHARGER_CONTROL_5", 1, "LSBFIRST", 1, 2,
             IF enable THEN 1 ELSE 0)

getExtILIMpin ==
  /\ Usable
  /\ LET reg_value == Raw("BQ25798_REG_CHARGER_CONTROL_5", 1, "LSBFIRST", 1, 1)
     IN GetBits("getExtILIMpin", "BQ25798_REG_CHARGER_CONTROL_5", 1, "LSBFIRST", 1, 1,
                reg_value # 0)

setExtILIMpin(enable) ==
  /\ Usable
  /\ SetBits("setExtILIMpin", "BQ25798_REG_CHARGER_CONTROL_5", 1, "LSBFIRST", 1, 1,
             IF enable THEN 1 ELSE 0)

getBatDischargeOCPenable ==
  /\ Usable
  /\ LET reg_value == Raw("BQ25798_REG_CHARGER_CONTROL_5", 1, "LSBFIRST", 1, 0)
     IN GetBits("getBatDischargeOCPenable", "BQ25798_REG_CHARGER_CONTROL_5", 1, "LSBFIRST", 1, 0,
                reg_value # 0)

setBatDischargeOCPenable(enable) ==
  /\ Usable
  /\ SetBits("setBatDischargeOCPenable", "BQ25798_REG_CHARGER_CONTROL_5", 1, "LSBFIRST", 1, 0,
             IF enable THEN 1 ELSE 0)

getVINDPM_VOCpercent ==
  /\ Usable
  /\ LET reg_value == Raw("BQ25798_REG_MPPT_CONTROL", 1, "LSBFIRST", 3, 5)
     IN GetBits("getVINDPM_VOCpercent", "BQ25798_REG_MPPT_CONTROL", 1, "LSBFIRST", 3, 5,
                reg_value)

setVINDPM_VOCpercent(percentage) ==
  /\ Usable
  /\ SetBits("setVINDPM_VOCpercent", "BQ25798_REG_MPPT_CONTROL", 1, "LSBFIRST", 3, 5,
             percentage % 256)

getVOCdelay ==
  /\ Usable
  /\ LET reg_value == Raw("BQ25798_REG_MPPT_CONTROL", 1, "LSBFIRST", 2, 3)
     IN GetBits("getVOCdelay", "BQ25798_REG_MPPT_CONTROL", 1, "LSBFIRST", 2, 3,
                reg_value)

setVOCdelay(delay) ==
  /\ Usable
  /\ SetBits("setVOCdelay", "BQ25798_REG_MPPT_CONTROL", 1, "LSBFIRST", 2, 3,
             delay % 256)

getVOCrate ==
  /\ Usable
  /\ LET reg_value == Raw("BQ25798_REG_MPPT_CONTROL", 1, "LSBFIRST", 2, 1)
     IN GetBits("getVOCrate", "BQ25798_REG_MPPT_CONTROL", 1, "LSBFIRST", 2, 1,
                reg_value)

setVOCrate(rate) ==
  /\ Usable
  /\ SetBits("setVOCrate", "BQ25798_REG_MPPT_CONTROL", 1, "LSBFIRST", 2, 1,
             rate % 256)

getMPPTenable ==
  /\ Usable
  /\ LET reg_value == Raw("BQ25798_REG_MPPT_CONTROL", 1, "LSBFIRST", 1, 0)
     IN GetBits("getMPPTenable", "BQ25798_REG_MPPT_CONTROL", 1, "LSBFIRST", 1, 0,
                reg_value # 0)

setMPPTenable(enable) ==
  /\ Usable
  /\ SetBits("setMPPTenable", "BQ25798_REG_MPPT_CONTROL", 1, "LSBFIRST", 1, 0,
             IF enable THEN 1 ELSE 0)

getThermRegulationThresh ==
  /\ Usable
  /\ LET reg_value == Raw("BQ25798_REG_TEMPERATURE_CONTROL", 1, "LSBFIRST", 2, 6)
     IN GetBits("getThermRegulationThresh", "BQ25798_REG_TEMPERATURE_CONTROL", 1, "LSBFIRST", 2, 6,
                reg_value)

setThermRegulationThresh(threshold) ==
  /\ Usable
  /\ SetBits("setThermRegulationThresh", "BQ25798_REG_TEMPERATURE_CONTROL", 1, "LSBFIRST", 2, 6,
             threshold % 256)

getThermShutdownThresh ==
  /\ Usable
  /\ LET reg_value == Raw("BQ25798_REG_TEMPERATURE_CONTROL", 1, "LSBFIRST", 2, 4)
     IN GetBits("getThermShutdownThresh", "BQ25798_REG_TEMPERATURE_CONTROL", 1, "LSBFIRST", 2, 4,
                reg_value)

setThermShutdownThresh(threshold) ==
  /\ Usable
  /\ SetBits("setThermShutdownThresh", "BQ25798_REG_TEMPERATURE_CONTROL", 1, "LSBFIRST", 2, 4,
             threshold % 256)

getVBUSpulldown ==
  /\ Usable
  /\ LET reg_value == Raw("BQ25798_REG_TEMPERATURE_CONTROL", 1, "LSBFIRST", 1, 3)
     IN GetBits("getVBUSpulldown", "BQ25798_REG_TEMPERATURE_CONTROL", 1, "LSBFIRST", 1, 3,
                reg_value # 0)

setVBUSpulldown(enable) ==
  /\ Usable
  /\ SetBits("setVBUSpulldown", "BQ25798_REG_TEMPERATURE_CONTROL", 1, "LSBFIRST", 1, 3,
             IF enable THEN 1 ELSE 0)

getVAC1pulldown ==
  /\ Usable
  /\ LET reg_value == Raw("BQ25798_REG_TEMPERATURE_CONTROL", 1, "LSBFIRST", 1, 2)
     IN GetBits("getVAC1pulldown", "BQ25798_REG_TEMPERATURE_CONTROL", 1, "LSBFIRST", 1, 2,
                reg_value # 0)

setVAC1pulldown(enable) ==
  /\ Usable
  /\ SetBits("setVAC1pulldown", "BQ25798_REG_TEMPERATURE_CONTROL", 1, "LSBFIRST", 1, 2,
             IF enable THEN 1 ELSE 0)

getVAC2pulldown ==
  /\ Usable
  /\ LET reg_value == Raw("BQ25798_REG_TEMPERATURE_CONTROL", 1, "LSBFIRST", 1, 1)
     IN GetBits("getVAC2pulldown", "BQ25798_REG_TEMPERATURE_CONTROL", 1, "LSBFIRST", 1, 1,
                reg_value # 0)

setVAC2pulldown(enable) ==
  /\ Usable
  /\ SetBits("setVAC2pulldown", "BQ25798_REG_TEMPERATURE_CONTROL", 1, "LSBFIRST", 1, 1,
             IF enable THEN 1 ELSE 0)

getBackupACFET1on ==
  /\ Usable
  /\ LET reg_value == Raw("BQ25798_REG_TEMPERATURE_CONTROL", 1, "LSBFIRST", 1, 0)
     IN GetBits("getBackupACFET1on", "BQ25798_REG_TEMPERATURE_CONTROL", 1, "LSBFIRST", 1, 0,
                reg_value # 0)

setBackupACFET1on(enable) ==
  /\ Usable
  /\ SetBits("setBackupACFET1on", "BQ25798_REG_TEMPERATURE_CONTROL", 1, "LSBFIRST", 1, 0,
             IF enable THEN 1 ELSE 0)

\* the register image reset() leaves: the reset bit written as 1
ResetImage(mem) == BitsWrite(mem, "BQ25798_REG_TERMINATION_CONTROL", 1, "LSBFIRST", 1, 6, 1)

reset ==
  /\ Usable
  /\ WriteBits("reset", "reset", "BQ25798_REG_TERMINATION_CONTROL", 1, "LSBFIRST", 1, 6, 1)
----------------------------------------------------------------------------
(* The chip's contents, the hardware, and the life of the facade.          *)

\* register contents <<high byte, low byte, part information>>: all zeros, all
\* ones, and mixed bytes, with part-information bytes that pass and fail
PatternSeq == <<
  <<0, 0, 24>>, <<255, 255, 223>>, <<165, 90, 0>>, <<90, 165, 63>>,
  <<15, 240, 25>>, <<240, 15, 16>>, <<51, 204, 88>>, <<204, 51, 8>> >>

Patterns == {PatternSeq[i] : i \in 1..NumPatterns}

\* the chip holding pattern p: wide registers <<high, low>>, the others <<low>>
PatternRegs(p) ==
  [r \in Registers |->
     IF r = "BQ25798_REG_PART_INFORMATION" THEN <<p[3]>>
     ELSE IF r \in WideRegisters THEN <<p[1], p[2]>>
     ELSE <<p[2]>>]

\* what a hardware event keeps of the call it follows: a getter's name and
\* result
Remembered == IF last.kind = "get" THEN <<last.op, last.ret>> ELSE <<>>

\* the hardware changes the configuration registers on its own
hwChange ==
  \E p \in Patterns :
    /\ regs' = [PatternRegs(p) EXCEPT !["BQ25798_REG_PART_INFORMATION"] =
                  regs["BQ25798_REG_PART_INFORMATION"]]
    /\ regs' # regs
    /\ last' = [op |-> "hwChange", kind |-> "hw", ret |-> TRUE, bus |-> <<>>,
                field |-> NoField, pre |-> regs, raw |-> <<>>, nack |-> {}, seen |-> Remembered]
    /\ stored' = FALSE
    /\ UNCHANGED <<i2c_dev, live, alive, online, fault, ctx, focus, arg>>

\* the chip after a register reset: every configuration register at a fixed
\* default with the reset bit clear, the part information as it was
FactoryDefaults(mem) ==
  [PatternRegs(<<165, 5, 0>>) EXCEPT !["BQ25798_REG_PART_INFORMATION"] =
     mem["BQ25798_REG_PART_INFORMATION"]]

\* the hardware carries out a pending reset and clears the reset bit
hwReset ==
  /\ BitsRead(regs, "BQ25798_REG_TERMINATION_CONTROL", 1, "LSBFIRST", 1, 6) = 1
  /\ regs' = FactoryDefaults(regs)
  /\ last' = [op |-> "hwReset", kind |-> "hw", ret |-> TRUE, bus |-> <<>>,
              field |-> NoField, pre |-> regs, raw |-> <<>>, nack |-> {}, seen |-> Remembered]
  /\ stored' = FALSE
  /\ UNCHANGED <<i2c_dev, live, alive, online, fault, ctx, focus, arg>>

\* what begin() and a change of wiring keep of the call they follow: the
\* result of a begin(), or what a hardware event carried
Retried == IF last.op = "begin" THEN <<"begin", last.ret>> ELSE Carried

\* the wiring changes: the device appears on the bus or drops off it, or
\* another device takes its place
attach ==
  /\ alive
  /\ \E o \in BOOLEAN, p \in Patterns :
       /\ online' = o
       /\ regs' = PatternRegs(p)
       /\ <<online', regs'>> # <<online, regs>>
  /\ last' = [op |-> "attach", kind |-> "hw", ret |-> TRUE, bus |-> <<>>,
              field |-> NoField, pre |-> regs, raw |-> <<>>, nack |-> {}, seen |-> Retried]
  /\ stored' = FALSE
  /\ UNCHANGED <<i2c_dev, live, alive, fault, ctx, focus, arg>>

\* Adafruit_BQ25798(): no handle yet
Constructed ==
  /\ i2c_dev = NULL
  /\ live = {}
  /\ alive = TRUE
  /\ last = [op |-> "Adafruit_BQ25798", kind |-> "ctor", ret |-> TRUE,
             bus |-> <<>>, field |-> NoField, pre |-> regs, raw |-> <<>>, nack |-> {},
             seen |-> <<>>]
  /\ stored = FALSE

\* ~Adafruit_BQ25798(): the handle, if any, is deleted
Destructor ==
  /\ alive
  /\ alive' = FALSE
  /\ live' = live \ {i2c_dev}
  /\ last' = [op |-> "~Adafruit_BQ25798", kind |-> "dtor", ret |-> TRUE,
              bus |-> <<>>, field |-> NoField, pre |-> regs, raw |-> <<>>, nack |-> {},
              seen |-> <<>>]
  /\ stored' = FALSE
  /\ UNCHANGED <<regs, i2c_dev, online, fault, ctx, focus, arg>>

\* an accessor called before the first begin(): the register object is built on
\* the NULL handle and the transfer dereferences it, which is undefined; the
\* call may return anything without reaching the chip, or the program may stop
nullCall ==
  /\ alive
  /\ i2c_dev = NULL
  /\ \E ret \in BOOLEAN, stops \in BOOLEAN :
       /\ alive' = ~stops
       /\ last' = [op |-> "getMinSystemV", kind |-> "ub", ret |-> ret, bus |-> <<>>,
                   field |-> NoField, pre |-> regs, raw |-> <<>>, nack |-> {},
                   seen |-> <<>>]
  /\ stored' = FALSE
  /\ UNCHANGED <<regs, i2c_dev, live, online, fault, ctx, focus, arg>>

\* what begin() returns and leaves on the chip, given what the bus presents
BeginOutcome(mem, answers) ==
  LET part_info == RegisterRead(mem, "BQ25798_REG_PART_INFORMATION", 1, "LSBFIRST")
      info == BusRead("BQ25798_REG_PART_INFORMATION", 1)
      term == "BQ25798_REG_TERMINATION_CONTROL"
  IN IF ~answers
       THEN [ret |-> FALSE, bus |-> <<BusProbe>>, mem |-> mem]
     ELSE IF (part_info \div 8) % 8 # 3
       THEN [ret |-> FALSE, bus |-> <<BusProbe, info>>, mem |-> mem]
     ELSE [ret |-> TRUE,
           bus |-> <<BusProbe, info, BusRead(term, 1), BusWrite(term, 1)>>,
           mem |-> ResetImage(mem)]

\* a faulty begin() that refuses to run again once it has taken a handle
begin_once ==
  /\ alive
  /\ IF i2c_dev # NULL
     THEN /\ last' = [op |-> "begin", kind |-> "begin", ret |-> FALSE, bus |-> <<>>,
                      field |-> NoField, pre |-> regs, raw |-> <<>>, nack |-> {}, seen |-> Retried]
          /\ stored' = FALSE
          /\ UNCHANGED <<regs, i2c_dev, live, alive, online, fault, ctx, focus, arg>>
     ELSE \E h \in Handles \ live :
            LET out == BeginOutcome(regs, online) IN
              /\ i2c_dev' = h
              /\ live' = live \cup {h}
              /\ regs' = out.mem
              /\ last' = [op |-> "begin", kind |-> "begin", ret |-> out.ret,
                          bus |-> out.bus, field |-> NoField, pre |-> regs,
                          raw |-> <<>>, nack |-> {}, seen |-> Retried]
              /\ stored' = FALSE
              /\ UNCHANGED <<alive, online, fault, ctx, focus, arg>>

\* a faulty begin() that gives the handle up again when it fails
begin_cleanup ==
  /\ alive
  /\ \E h \in Handles \ (live \ {i2c_dev}) :
       LET out == BeginOutcome(regs, online) IN
         /\ i2c_dev' = IF out.ret THEN h ELSE NULL
         /\ live' = IF out.ret THEN {h} ELSE {}
         /\ regs' = out.mem
         /\ last' = [op |-> "begin", kind |-> "begin", ret |-> out.ret,
                     bus |-> out.bus, field |-> NoField, pre |-> regs,
                     raw |-> <<>>, nack |-> {}, seen |-> Retried]
         /\ stored' = FALSE
         /\ UNCHANGED <<alive, online, fault, ctx, focus, arg>>

\* a faulty begin() that takes a fresh handle without deleting the one it holds
begin_leak ==
  /\ alive
  /\ \E h \in Handles \ live :
       LET out == BeginOutcome(regs, online) IN
         /\ i2c_dev' = h
         /\ live' = live \cup {h}
         /\ regs' = out.mem
         /\ last' = [op |-> "begin", kind |-> "begin", ret |-> out.ret,
                     bus |-> out.bus, field |-> NoField, pre |-> regs,
                     raw |-> <<>>, nack |-> {}, seen |-> Retried]
         /\ stored' = FALSE
         /\ UNCHANGED <<alive, online, fault, ctx, focus, arg>>

\* begin(addr, wire): a fresh handle replaces the old one, the session is
\* opened, the part is identified and reset
begin ==
  /\ alive
  /\ \E h \in Handles \ (live \ {i2c_dev}) :
       LET out == BeginOutcome(regs, online) IN
         /\ i2c_dev' = h
         /\ live' = (live \ {i2c_dev}) \cup {h}
         /\ regs' = out.mem
         /\ last' = [op |-> "begin", kind |-> "begin", ret |-> out.ret,
                     bus |-> out.bus, field |-> NoField, pre |-> regs,
                     raw |-> <<>>, nack |-> {}, seen |-> Retried]
         /\ stored' = FALSE
         /\ UNCHANGED <<alive, online, fault, ctx, focus, arg>>

----------------------------------------------------------------------------
(* The client: the settings a sketch can exercise and the arguments it     *)
(* passes.                                                                 *)

\* the valid range each linear setter tests its argument against, in hundredths
LinearRange == [
  MinSystemV |-> <<250, 1600>>, ChargeLimitV |-> <<300, 1880>>,
  ChargeLimitA |-> <<5, 500>>, InputLimitV |-> <<360, 2200>>,
  InputLimitA |-> <<10, 330>>, PrechargeLimitA |-> <<4, 200>>,
  TerminationA |-> <<4, 100>>, RechargeThreshOffsetV |-> <<5, 80>>,
  OTGV |-> <<280, 2200>>, OTGLimitA |-> <<16, 336>> ]

\* the width of the field each enumerated setter writes
EnumBits == [
  VBatLowV |-> 2, CellCount |-> 2, RechargeDeglitchTime |-> 2,
  PrechargeTimer |-> 1, TopOffTimer |-> 2, FastChargeTimer |-> 2,
  BackupModeThresh |-> 2, VACOVP |-> 2, WDT |-> 3, ShipFETmode |-> 2,
  ShipWakeupDelay |-> 1, PWMFrequency |-> 1, BatDischargeA |-> 2,
  VINDPM_VOCpercent |-> 3, VOCdelay |-> 2, VOCrate |-> 2,
  ThermRegulationThresh |-> 2, ThermShutdownThresh |-> 2 ]

\* the flags
BoolSettings == {
  "StopOnWDT", "TrickleChargeTimerEnable", "PrechargeTimerEnable",
  "FastChargeTimerEnable", "TimerHalfRateEnable", "AutoOVPBattDischarge",
  "ForceBattDischarge", "ChargeEnable", "ICOEnable", "ForceICO", "HIZMode",
  "TerminationEnable", "BackupModeEnable", "ForceDPinsDetection",
  "AutoDPinsDetection", "HVDCP12VEnable", "HVDCP9VEnable", "HVDCPEnable",
  "ShipFET10sDelay", "ACenable", "OTGenable", "OTGPFM", "ForwardPFM",
  "BATFETLDOprecharge", "OTGOOA", "ForwardOOA", "ACDRV2enable",
  "ACDRV1enable", "StatPinEnable", "VSYSshortProtect", "VOTG_UVPProtect",
  "VINDPMdetection", "IBUS_OCPenable", "ShipFETpresent",
  "BatDischargeSenseEnable", "IINDPMenable", "ExtILIMpin",
  "BatDischargeOCPenable", "MPPTenable", "VBUSpulldown", "VAC1pulldown",
  "VAC2pulldown", "BackupACFET1on" }

LinearSettings == DOMAIN LinearRange
EnumSettings == DOMAIN EnumBits
OneShots == {"resetWDT", "reset"}
\* the client calls the linear setter of the setting it exercises
LinearSets ==
  \/ focus = "MinSystemV" /\ setMinSystemV(Lit(arg[1], arg[2]))
  \/ focus = "ChargeLimitV" /\ setChargeLimitV(Lit(arg[1], arg[2]))
  \/ focus = "ChargeLimitA" /\ setChargeLimitA(Lit(arg[1], arg[2]))
  \/ focus = "InputLimitV" /\ setInputLimitV(Lit(arg[1], arg[2]))
  \/ focus = "InputLimitA" /\ setInputLimitA(Lit(arg[1], arg[2]))
  \/ focus = "PrechargeLimitA" /\ setPrechargeLimitA(Lit(arg[1], arg[2]))
  \/ focus = "TerminationA" /\ setTerminationA(Lit(arg[1], arg[2]))
  \/ focus = "RechargeThreshOffsetV" /\ setRechargeThreshOffsetV(Lit(arg[1], arg[2]))
  \/ focus = "OTGV" /\ setOTGV(Lit(arg[1], arg[2]))
  \/ focus = "OTGLimitA" /\ setOTGLimitA(Lit(arg[1], arg[2]))

\* the client calls the linear getter of the setting it exercises
LinearGets ==
  \/ focus = "MinSystemV" /\ getMinSystemV
  \/ focus = "ChargeLimitV" /\ getChargeLimitV
  \/ focus = "ChargeLimitA" /\ getChargeLimitA
  \/ focus = "InputLimitV" /\ getInputLimitV
  \/ focus = "InputLimitA" /\ getInputLimitA
  \/ focus = "PrechargeLimitA" /\ getPrechargeLimitA
  \/ focus = "TerminationA" /\ getTerminationA
  \/ focus = "RechargeThreshOffsetV" /\ getRechargeThreshOffsetV
  \/ focus = "OTGV" /\ getOTGV
  \/ focus = "OTGLimitA" /\ getOTGLimitA

\* the client calls the enumerated accessors of the setting it exercises
EnumCalls ==
  \/ focus = "VBatLowV" /\ getVBatLowV
  \/ focus = "VBatLowV" /\ setVBatLowV(arg)
  \/ focus = "CellCount" /\ getCellCount
  \/ focus = "CellCount" /\ setCellCount(arg)
  \/ focus = "RechargeDeglitchTime" /\ getRechargeDeglitchTime
  \/ focus = "RechargeDeglitchTime" /\ setRechargeDeglitchTime(arg)
  \/ focus = "PrechargeTimer" /\ getPrechargeTimer
  \/ focus = "PrechargeTimer" /\ setPrechargeTimer(arg)
  \/ focus = "TopOffTimer" /\ getTopOffTimer
  \/ focus = "TopOffTimer" /\ setTopOffTimer(arg)
  \/ focus = "FastChargeTimer" /\ getFastChargeTimer
  \/ focus = "FastChargeTimer" /\ setFastChargeTimer(arg)
  \/ focus = "BackupModeThresh" /\ getBackupModeThresh
  \/ focus = "BackupModeThresh" /\ setBackupModeThresh(arg)
  \/ focus = "VACOVP" /\ getVACOVP
  \/ focus = "VACOVP" /\ setVACOVP(arg)
  \/ focus = "WDT" /\ getWDT
  \/ focus = "WDT" /\ setWDT(arg)
  \/ focus = "ShipFETmode" /\ getShipFETmode
  \/ focus = "ShipFETmode" /\ setShipFETmode(arg)
  \/ focus = "ShipWakeupDelay" /\ getShipWakeupDelay
  \/ focus = "ShipWakeupDelay" /\ setShipWakeupDelay(arg)
  \/ focus = "PWMFrequency" /\ getPWMFrequency
  \/ focus = "PWMFrequency" /\ setPWMFrequency(arg)
  \/ focus = "BatDischargeA" /\ getBatDischargeA
  \/ focus = "BatDischargeA" /\ setBatDischargeA(arg)
  \/ focus = "VINDPM_VOCpercent" /\ getVINDPM_VOCpercent
  \/ focus = "VINDPM_VOCpercent" /\ setVINDPM_VOCpercent(arg)
  \/ focus = "VOCdelay" /\ getVOCdelay
  \/ focus = "VOCdelay" /\ setVOCdelay(arg)
  \/ focus = "VOCrate" /\ getVOCrate
  \/ focus = "VOCrate" /\ setVOCrate(arg)
  \/ focus = "ThermRegulationThresh" /\ getThermRegulationThresh
  \/ focus = "ThermRegulationThresh" /\ setThermRegulationThresh(arg)
  \/ focus = "ThermShutdownThresh" /\ getThermShutdownThresh
  \/ focus = "ThermShutdownThresh" /\ setThermShutdownThresh(arg)

\* the client calls the boolean accessors of the setting it exercises
BoolCalls ==
  \/ focus = "StopOnWDT" /\ getStopOnWDT
  \/ focus = "StopOnWDT" /\ setStopOnWDT(arg)
  \/ focus = "TrickleChargeTimerEnable" /\ getTrickleChargeTimerEnable
  \/ focus = "TrickleChargeTimerEnable" /\ setTrickleChargeTimerEnable(arg)
  \/ focus = "PrechargeTimerEnable" /\ getPrechargeTimerEnable
  \/ focus = "PrechargeTimerEnable" /\ setPrechargeTimerEnable(arg)
  \/ focus = "FastChargeTimerEnable" /\ getFastChargeTimerEnable
  \/ focus = "FastChargeTimerEnable" /\ setFastChargeTimerEnable(arg)
  \/ focus = "TimerHalfRateEnable" /\ getTimerHalfRateEnable
  \/ focus = "TimerHalfRateEnable" /\ setTimerHalfRateEnable(arg)
  \/ focus = "AutoOVPBattDischarge" /\ getAutoOVPBattDischarge
  \/ focus = "AutoOVPBattDischarge" /\ setAutoOVPBattDischarge(arg)
  \/ focus = "ForceBattDischarge" /\ getForceBattDischarge
  \/ focus = "ForceBattDischarge" /\ setForceBattDischarge(arg)
  \/ focus = "ChargeEnable" /\ getChargeEnable
  \/ focus = "ChargeEnable" /\ setChargeEnable(arg)
  \/ focus = "ICOEnable" /\ getICOEnable
  \/ focus = "ICOEnable" /\ setICOEnable(arg)
  \/ focus = "ForceICO" /\ getForceICO
  \/ focus = "ForceICO" /\ setForceICO(arg)
  \/ focus = "HIZMode" /\ getHIZMode
  \/ focus = "HIZMode" /\ setHIZMode(arg)
  \/ focus = "TerminationEnable" /\ getTerminationEnable
  \/ focus = "TerminationEnable" /\ setTerminationEnable(arg)
  \/ focus = "BackupModeEnable" /\ getBackupModeEnable
  \/ focus = "BackupModeEnable" /\ setBackupModeEnable(arg)
  \/ focus = "ForceDPinsDetection" /\ getForceDPinsDetection
  \/ focus = "ForceDPinsDetection" /\ setForceDPinsDetection(arg)
  \/ focus = "AutoDPinsDetection" /\ getAutoDPinsDetection
  \/ focus = "AutoDPinsDetection" /\ setAutoDPinsDetection(arg)
  \/ focus = "HVDCP12VEnable" /\ getHVDCP12VEnable
  \/ focus = "HVDCP12VEnable" /\ setHVDCP12VEnable(arg)
  \/ focus = "HVDCP9VEnable" /\ getHVDCP9VEnable
  \/ focus = "HVDCP9VEnable" /\ setHVDCP9VEnable(arg)
  \/ focus = "HVDCPEnable" /\ getHVDCPEnable
  \/ focus = "HVDCPEnable" /\ setHVDCPEnable(arg)
  \/ focus = "ShipFET10sDelay" /\ getShipFET10sDelay
  \/ focus = "ShipFET10sDelay" /\ setShipFET10sDelay(arg)
  \/ focus = "ACenable" /\ getACenable
  \/ focus = "ACenable" /\ setACenable(arg)
  \/ focus = "OTGenable" /\ getOTGenable
  \/ focus = "OTGenable" /\ setOTGenable(arg)
  \/ focus = "OTGPFM" /\ getOTGPFM
  \/ focus = "OTGPFM" /\ setOTGPFM(arg)
  \/ focus = "ForwardPFM" /\ getForwardPFM
  \/ focus = "ForwardPFM" /\ setForwardPFM(arg)
  \/ focus = "BATFETLDOprecharge" /\ getBATFETLDOprecharge
  \/ focus = "BATFETLDOprecharge" /\ setBATFETLDOprecharge(arg)
  \/ focus = "OTGOOA" /\ getOTGOOA
  \/ focus = "OTGOOA" /\ setOTGOOA(arg)
  \/ focus = "ForwardOOA" /\ getForwardOOA
  \/ focus = "ForwardOOA" /\ setForwardOOA(arg)
  \/ focus = "ACDRV2enable" /\ getACDRV2enable
  \/ focus = "ACDRV2enable" /\ setACDRV2enable(arg)
  \/ focus = "ACDRV1enable" /\ getACDRV1enable
  \/ focus = "ACDRV1enable" /\ setACDRV1enable(arg)
  \/ focus = "StatPinEnable" /\ getStatPinEnable
  \/ focus = "StatPinEnable" /\ setStatPinEnable(arg)
  \/ focus = "VSYSshortProtect" /\ getVSYSshortProtect
  \/ focus = "VSYSshortProtect" /\ setVSYSshortProtect(arg)
  \/ focus = "VOTG_UVPProtect" /\ getVOTG_UVPProtect
  \/ focus = "VOTG_UVPProtect" /\ setVOTG_UVPProtect(arg)
  \/ focus = "VINDPMdetection" /\ setVINDPMdetection(arg)
  \/ focus = "VINDPMdetection" /\ getVINDPMdetection
  \/ focus = "IBUS_OCPenable" /\ getIBUS_OCPenable
  \/ focus = "IBUS_OCPenable" /\ setIBUS_OCPenable(arg)
  \/ focus = "ShipFETpresent" /\ getShipFETpresent
  \/ focus = "ShipFETpresent" /\ setShipFETpresent(arg)
  \/ focus = "BatDischargeSenseEnable" /\ getBatDischargeSenseEnable
  \/ focus = "BatDischargeSenseEnable" /\ setBatDischargeSenseEnable(arg)
  \/ focus = "IINDPMenable" /\ getIINDPMenable
  \/ focus = "IINDPMenable" /\ setIINDPMenable(arg)
  \/ focus = "ExtILIMpin" /\ getExtILIMpin
  \/ focus = "ExtILIMpin" /\ setExtILIMpin(arg)
  \/ focus = "BatDischargeOCPenable" /\ getBatDischargeOCPenable
  \/ focus = "BatDischargeOCPenable" /\ setBatDischargeOCPenable(arg)
  \/ focus = "MPPTenable" /\ getMPPTenable
  \/ focus = "MPPTenable" /\ setMPPTenable(arg)
  \/ focus = "VBUSpulldown" /\ getVBUSpulldown
  \/ focus = "VBUSpulldown" /\ setVBUSpulldown(arg)
  \/ focus = "VAC1pulldown" /\ getVAC1pulldown
  \/ focus = "VAC1pulldown" /\ setVAC1pulldown(arg)
  \/ focus = "VAC2pulldown" /\ getVAC2pulldown
  \/ focus = "VAC2pulldown" /\ setVAC2pulldown(arg)
  \/ focus = "BackupACFET1on" /\ getBackupACFET1on
  \/ focus = "BackupACFET1on" /\ setBackupACFET1on(arg)

\* the client calls the one-shot commands of the setting it exercises
ActionCalls ==
  \/ focus = "resetWDT" /\ resetWDT
  \/ focus = "reset" /\ reset
----------------------------------------------------------------------------
(* Two execution contexts sharing the device.  A call of                   *)
(* Adafruit_BusIO_RegisterBits::write is two bus transfers, and the other  *)
(* context's transfers may fall between them.                              *)

\* the context that is not c
Other(c) == CHOOSE d \in Contexts : d # c

\* the byte val with data merged into the field of the given width and shift
Merged(val, bits, shift, data) ==
  BitsWrite([r \in {"val"} |-> <<val>>], "val", 1, "LSBFIRST", bits, shift, data)["val"][1]

\* the first transfer of a setter running in context c: the register is read;
\* the call races when the other context is between its own two transfers
ReadStep(c, op, reg, data) ==
  /\ Usable
  /\ ctx[c].pc = "idle"
  /\ ctx' = [ctx EXCEPT ![c] =
               [pc |-> op, val |-> RegisterRead(Readable, reg, 1, "LSBFIRST"),
                data |-> data, raced |-> ctx[Other(c)].pc \notin {"idle", "done"}]]
  /\ UNCHANGED <<regs, i2c_dev, live, alive, online, fault, focus, arg, last, stored>>

\* the second transfer: the register is written with value, and the setter
\* returns true
WriteStep(c, op, reg, bits, shift, value) ==
  /\ ctx[c].pc = op
  /\ regs' = Written(RegisterWrite(regs, reg, 1, "LSBFIRST", value))
  /\ ctx' = [ctx EXCEPT ![c].pc = "done"]
  /\ last' = [op |-> op, kind |-> "set", ret |-> TRUE,
              bus |-> <<BusRead(reg, 1), BusWrite(reg, 1)>>,
              field |-> Field(reg, 1, "LSBFIRST", bits, shift), pre |-> regs,
              raw |-> <<>>, nack |-> fault, seen |-> <<>>]
  /\ stored' = FALSE
  /\ UNCHANGED <<i2c_dev, live, alive, online, fault, focus, arg>>

\* context A calls setTrickleChargeTimerEnable(enable): trickle_bit.write reads
setTrickleChargeTimerEnable_read ==
  \E enable \in BOOLEAN :
    ReadStep("A", "setTrickleChargeTimerEnable", "BQ25798_REG_TIMER_CONTROL",
             IF enable THEN 1 ELSE 0)

\* ... and writes the register back with bit 5 replaced
setTrickleChargeTimerEnable_write ==
  WriteStep("A", "setTrickleChargeTimerEnable", "BQ25798_REG_TIMER_CONTROL", 1, 5,
            Merged(ctx["A"].val, 1, 5, ctx["A"].data))

\* context B calls setFastChargeTimer(timer) with a defined enumerator:
\* chg_tmr_bits.write reads
setFastChargeTimer_read ==
  \E timer \in 0..EnumMax.BQ25798_CHG_TMR_24HR :
    ReadStep("B", "setFastChargeTimer", "BQ25798_REG_TIMER_CONTROL", timer % 256)

\* a faulty second transfer that writes the shifted field and nothing of the
\* value read
setFastChargeTimer_clobber ==
  WriteStep("B", "setFastChargeTimer", "BQ25798_REG_TIMER_CONTROL", 2, 1,
            Merged(0, 2, 1, ctx["B"].data))

\* ... and writes the register back with bits 2..1 replaced
setFastChargeTimer_write ==
  WriteStep("B", "setFastChargeTimer", "BQ25798_REG_TIMER_CONTROL", 2, 1,
            Merged(ctx["B"].val, 2, 1, ctx["B"].data))

----------------------------------------------------------------------------
(* Scenarios and specifications.                                           *)

\* decimal literals a sketch passes to a linear setter: a few around each end
EdgeInputs(s) ==
  LET lo == LinearRange[s][1]
      hi == LinearRange[s][2]
  IN {<<-1, 100>>, <<lo - 1, 100>>, <<lo, 100>>, <<hi, 100>>, <<hi + 1, 100>>}

\* every hundredth of the range and GridMargin beyond it, and the thousandths
\* just outside each end
GridInputs(s) ==
  LET lo == LinearRange[s][1]
      hi == LinearRange[s][2]
  IN {<<k, 100>> : k \in (lo - GridMargin)..(hi + GridMargin)}
       \cup {<<10 * lo - 1, 1000>>, <<10 * hi + 1, 1000>>}

\* ordinals passed to an enumerated setter: the field's values and OrdMargin more
Ordinals(s) == 0..(Pow2(EnumBits[s]) - 1 + OrdMargin)

LinearScenarios(Inputs(_)) ==
  UNION {{<<s, a>> : a \in Inputs(s)} : s \in LinearSettings}

Scenarios ==
  LinearScenarios(EdgeInputs)
    \cup UNION {{<<s, a>> : a \in Ordinals(s)} : s \in EnumSettings}
    \cup (BoolSettings \X BOOLEAN)
    \cup (OneShots \X {0})

\* a bus whose transfers succeed, used from one execution context
Quiet ==
  /\ fault = {}
  /\ ctx = Idle

\* a freshly constructed facade, a chip in some state, a sketch about to run
Init ==
  /\ regs \in {PatternRegs(p) : p \in Patterns}
  /\ online \in BOOLEAN
  /\ \E s \in Scenarios : focus = s[1] /\ arg = s[2]
  /\ Quiet
  /\ Constructed

Next ==
  \/ begin
  \/ Destructor
  \/ hwChange
  \/ LinearSets
  \/ LinearGets
  \/ EnumCalls
  \/ BoolCalls
  \/ ActionCalls

Spec == Init /\ [][Next]_vars

\* a facade that has begun on an identified chip
Begun ==
  /\ i2c_dev \in Handles
  /\ live = {i2c_dev}
  /\ alive = TRUE
  /\ online = TRUE
  /\ (RegisterRead(regs, "BQ25798_REG_PART_INFORMATION", 1, "LSBFIRST") \div 8) % 8 = 3
  /\ last = [op |-> "begin", kind |-> "begin", ret |-> TRUE,
             bus |-> BeginOutcome(regs, TRUE).bus, field |-> NoField, pre |-> regs,
             raw |-> <<>>, nack |-> {}, seen |-> <<>>]
  /\ stored = FALSE

\* the linear accessors over every hundredth of their ranges
InitLinear ==
  /\ regs \in {ResetImage(PatternRegs(p)) : p \in Patterns}
  /\ \E s \in LinearScenarios(GridInputs) : focus = s[1] /\ arg = s[2]
  /\ i2c_dev = 1
  /\ Quiet
  /\ Begun

NextLinear ==
  \/ LinearSets
  \/ LinearGets

SpecLinear == InitLinear /\ [][NextLinear]_vars

\* the chip holding x in the low RawBits bits of every configuration register,
\* the bits above them all ones or all zeros
RawRegs(x, ones) ==
  LET v == x + (IF ones THEN Pow2(16) - Pow2(RawBits) ELSE 0) IN
  [r \in Registers |->
     IF r = "BQ25798_REG_PART_INFORMATION" THEN <<24>>
     ELSE IF r \in WideRegisters THEN <<(v \div 256) % 256, v % 256>>
     ELSE <<v % 256>>]

\* the linear getters over every raw content of their registers
InitRaw ==
  /\ regs \in {RawRegs(x, ones) : x \in 0..(Pow2(RawBits) - 1), ones \in BOOLEAN}
  /\ \E s \in LinearSettings : focus = s /\ arg = <<LinearRange[s][1], 100>>
  /\ i2c_dev = 1
  /\ Quiet
  /\ Begun

NextRaw == LinearGets

SpecRaw == InitRaw /\ [][NextRaw]_vars

\* begin() against every part-information byte, on a bus that answers or not
InitBegin ==
  /\ \E p \in Patterns, id \in 0..255 :
       regs = [PatternRegs(p) EXCEPT !["BQ25798_REG_PART_INFORMATION"] = <<id>>]
  /\ online \in BOOLEAN
  /\ focus = "reset"
  /\ arg = 0
  /\ Quiet
  /\ Constructed

NextBegin ==
  \/ begin
  \/ Destructor
  \/ reset

SpecBegin == InitBegin /\ [][NextBegin]_vars


\* transfers on the bus start or stop failing: reads, writes, or both
busFault ==
  /\ alive
  /\ \E f \in SUBSET {"read", "write"} :
       /\ f # fault
       /\ fault' = f
  /\ UNCHANGED <<regs, i2c_dev, live, alive, online, ctx, focus, arg, last, stored>>

\* a begun facade on a bus whose transfers may fail
InitBus ==
  /\ regs \in {PatternRegs(p) : p \in Patterns}
  /\ \E s \in Scenarios : focus = s[1] /\ arg = s[2]
  /\ i2c_dev = 1
  /\ fault \in SUBSET {"read", "write"}
  /\ ctx = Idle
  /\ Begun

NextBus ==
  \/ busFault
  \/ LinearSets
  \/ LinearGets
  \/ EnumCalls
  \/ BoolCalls
  \/ ActionCalls

SpecBus == InitBus /\ [][NextBus]_vars

\* a begun facade on a chip at rest: no reset is pending
InitReset ==
  /\ \E p \in Patterns, id \in 0..255 :
       regs = BitsWrite([PatternRegs(p) EXCEPT !["BQ25798_REG_PART_INFORMATION"] = <<id>>],
                        "BQ25798_REG_TERMINATION_CONTROL", 1, "LSBFIRST", 1, 6, 0)
  /\ focus = "reset"
  /\ arg = 0
  /\ i2c_dev = 1
  /\ Quiet
  /\ Begun

NextReset ==
  \/ reset
  \/ hwReset

SpecReset == InitReset /\ [][NextReset]_vars

\* begin() and the validating setters, retried while the wiring changes
InitRetry ==
  /\ regs \in {PatternRegs(p) : p \in Patterns}
  /\ online \in BOOLEAN
  /\ \E s \in Scenarios : s[1] \in LinearSettings \cup EnumSettings /\ focus = s[1] /\ arg = s[2]
  /\ Quiet
  /\ Constructed

NextRetry ==
  \/ begin
  \/ attach
  \/ LinearSets
  \/ LinearGets
  \/ EnumCalls

SpecRetry == InitRetry /\ [][NextRetry]_vars

\* a begun facade shared by two contexts, the timer-control register holding
\* any byte
InitRace ==
  /\ \E p \in Patterns, t \in 0..255 :
       regs = [PatternRegs(p) EXCEPT !["BQ25798_REG_TIMER_CONTROL"] = <<t>>]
  /\ focus = "FastChargeTimer"
  /\ arg = 0
  /\ i2c_dev = 1
  /\ Quiet
  /\ Begun

NextRace ==
  \/ setTrickleChargeTimerEnable_read
  \/ setTrickleChargeTimerEnable_write
  \/ setFastChargeTimer_read
  \/ setFastChargeTimer_write

SpecRace == InitRace /\ [][NextRace]_vars

\* a begun facade whose sketch feeds the watchdog and reads the settings that
\* share the watchdog's register; arg is the byte that register holds at the
\* start
InitWDT ==
  /\ arg \in 0..255
  /\ \E p \in Patterns :
       regs = [PatternRegs(p) EXCEPT !["BQ25798_REG_CHARGER_CONTROL_1"] = <<arg>>]
  /\ focus = "resetWDT"
  /\ i2c_dev = 1
  /\ Quiet
  /\ Begun

NextWDT ==
  \/ resetWDT
  \/ getWDT
  \/ getVACOVP
  \/ getBackupModeThresh

SpecWDT == InitWDT /\ [][NextWDT]_vars

\* a begun facade on a working bus and a chip that changes only when written
InitFrame ==
  /\ regs \in {PatternRegs(p) : p \in Patterns}
  /\ \E s \in Scenarios : focus = s[1] /\ arg = s[2]
  /\ i2c_dev = 1
  /\ Quiet
  /\ Begun

NextFrame ==
  \/ LinearSets
  \/ LinearGets
  \/ EnumCalls
  \/ BoolCalls
  \/ ActionCalls

SpecFrame == InitFrame /\ [][NextFrame]_vars

\* a sketch that calls an accessor before, between and after its begin() calls
InitNull ==
  /\ \E p \in Patterns, id \in 0..255 :
       regs = [PatternRegs(p) EXCEPT !["BQ25798_REG_PART_INFORMATION"] = <<id>>]
  /\ online \in BOOLEAN
  /\ focus = "MinSystemV"
  /\ arg = <<LinearRange["MinSystemV"][1], 100>>
  /\ Quiet
  /\ Constructed

NextNull ==
  \/ begin
  \/ Destructor
  \/ nullCall
  \/ getMinSystemV
  \/ setMinSystemV(Lit(arg[1], arg[2]))

SpecNull == InitNull /\ [][NextNull]_vars
----------------------------------------------------------------------------
(* Properties of the driver.                                               *)

\* the value the field f holds on the chip mem
FieldOf(mem, f) == BitsRead(mem, f.reg, f.width, f.byteorder, f.bits, f.shift)

\* the register of the field f with the field's own bits cleared
Outside(mem, f) ==
  RegisterRead(mem, f.reg, f.width, f.byteorder) - FieldOf(mem, f) * Pow2(f.shift)

\* C1: bit isolation.  After any setter (resetWDT included) has written, the
\* target register differs from what it held before the call only inside the
\* setting's own field, and every other register holds what it held before.
C1_BitIsolation ==
  (last.kind = "set" /\ last.ret)
    => /\ \A r \in Registers \ {last.field.reg} : regs[r] = last.pre[r]
       /\ Outside(regs, last.field) = Outside(last.pre, last.field)

\* C1 witness: setVBatLowV changed its field in a register whose other bits
\* were not all zero.
C1_Witness ==
  /\ last.op = "setVBatLowV"
  /\ last.ret
  /\ FieldOf(regs, last.field) # FieldOf(last.pre, last.field)
  /\ Outside(last.pre, last.field) # 0

\* the closed range of each linear setter, in hundredths of a volt or an ampere
ClaimedRange == [
  setMinSystemV |-> <<250, 1600>>, setChargeLimitV |-> <<300, 1880>>,
  setChargeLimitA |-> <<5, 500>>, setInputLimitV |-> <<360, 2200>>,
  setInputLimitA |-> <<10, 330>>, setPrechargeLimitA |-> <<4, 200>>,
  setTerminationA |-> <<4, 100>>, setRechargeThreshOffsetV |-> <<5, 80>>,
  setOTGV |-> <<280, 2200>>, setOTGLimitA |-> <<16, 336>> ]

\* the decimal literal a = <<p, q>> lies in the closed range r (hundredths)
InRange(a, r) == r[1] * a[2] <= 100 * a[1] /\ 100 * a[1] <= r[2] * a[2]

\* C2: a linear setter returns success exactly when its input lies in the
\* closed valid range of its setting.
C2_RangeCheck ==
  (last.kind = "set" /\ last.op \in DOMAIN ClaimedRange)
    => (last.ret <=> InRange(arg, ClaimedRange[last.op]))

\* C2 witness: setOTGLimitA accepted its maximum, 3.36 A.
C2_Witness ==
  /\ last.op = "setOTGLimitA"
  /\ arg = <<336, 100>>
  /\ last.ret

\* C3: a setter that returns failure has made no bus transaction and has left
\* every register as it was.
C3_RejectTouchesNothing ==
  (last.kind = "set" /\ ~last.ret)
    => (last.bus = <<>> /\ regs = last.pre)

\* C3 witness: setCellCount refused an ordinal above its last enumerator while
\* the chip held a register image that is not all zeros.
C3_Witness ==
  /\ last.op = "setCellCount"
  /\ ~last.ret
  /\ arg > EnumMax.BQ25798_CELL_COUNT_4S
  /\ regs["BQ25798_REG_RECHARGE_CONTROL"] # <<0>>

\* the float the sketch passes to a linear setter
ArgFloat == Lit(arg[1], arg[2])

\* the encoding of each linear setting: field width, and scale and offset in
\* hundredths
LinearForm == [
  MinSystemV |-> [bits |-> 6, scale |-> 25, offset |-> 250],
  ChargeLimitV |-> [bits |-> 11, scale |-> 1, offset |-> 0],
  ChargeLimitA |-> [bits |-> 9, scale |-> 1, offset |-> 0],
  InputLimitV |-> [bits |-> 8, scale |-> 10, offset |-> 0],
  InputLimitA |-> [bits |-> 9, scale |-> 1, offset |-> 0],
  PrechargeLimitA |-> [bits |-> 6, scale |-> 4, offset |-> 0],
  TerminationA |-> [bits |-> 5, scale |-> 4, offset |-> 0],
  RechargeThreshOffsetV |-> [bits |-> 4, scale |-> 5, offset |-> 5],
  OTGV |-> [bits |-> 11, scale |-> 1, offset |-> 280],
  OTGLimitA |-> [bits |-> 7, scale |-> 4, offset |-> 0] ]

\* |g - v| < s / 100, exactly, for floats g, v >= 0 with v > 0
CloserThan(g, v, s) ==
  LET ge == IF g.m = 0 THEN v.e ELSE g.e
      k == IF ge < v.e THEN -ge ELSE -v.e
      G == g.m * Pow2(ge + k)
      V == v.m * Pow2(v.e + k)
      D == IF G < V THEN V - G ELSE G - V
  IN 100 * D < s * Pow2(k)

\* C4: round trip.  A linear getter called after its setter accepted v, with
\* no hardware change in between, returns a value less than one step from v.
C4_RoundTrip ==
  (last.kind = "get" /\ stored)
    => CloserThan(last.ret, ArgFloat, LinearForm[focus].scale)

\* C4 failing case: after setOTGV(4.95) the field holds 214 and getOTGV
\* returns 4.93999958..., more than 0.01 below both 4.95 and the float 4.95f.
C4_Reached ==
  /\ last.op = "getOTGV"
  /\ stored
  /\ arg = <<495, 100>>
  /\ FieldOf(regs, last.field) = 214
  /\ ~CloserThan(last.ret, ArgFloat, 1)

\* C5: the raw value a linear setter writes for a valid input v = p/q is
\* (v - offset) / scale truncated toward zero.
C5_RawWritten ==
  (last.kind = "set" /\ last.ret)
    => FieldOf(regs, last.field) =
         (100 * arg[1] - LinearForm[focus].offset * arg[2])
           \div (LinearForm[focus].scale * arg[2])

\* C5 failing case: setInputLimitV(4.2) writes 41, not 42.
C5_Reached ==
  /\ last.op = "setInputLimitV"
  /\ last.ret
  /\ arg = <<420, 100>>
  /\ RegisterRead(regs, "BQ25798_REG_INPUT_VOLTAGE_LIMIT", 1, "LSBFIRST") = 41

\* the float g >= 0 rounded to the nearest hundredth, in hundredths
NearestHundredth(g) ==
  IF g.m = 0 THEN 0 ELSE ((g.m * 100) \div Pow2(-g.e - 1) + 1) \div 2

\* the low bits of the register a linear getter reads, as wide as the
\* setting's field
RawOf(s) ==
  RegisterRead(regs, last.field.reg, last.field.width, last.field.byteorder)
    % Pow2(LinearForm[s].bits)

\* C6: a linear getter returns r * scale + offset, evaluated in float, for the
\* raw value r of its field, whatever the other bits of the register hold; to
\* the nearest hundredth that is exactly r * scale + offset.
C6_Decode ==
  last.kind = "get"
    => LET f == LinearForm[focus]
           r == RawOf(focus)
       IN /\ last.ret = FAdd(FMulInt(r, Lit(f.scale, 100)), Lit(f.offset, 100))
          /\ NearestHundredth(last.ret) = r * f.scale + f.offset

\* C6 witness: getTerminationA decoded raw 31 as 1.24 with the three bits above
\* the field set.
C6_Witness ==
  /\ last.op = "getTerminationA"
  /\ regs["BQ25798_REG_TERMINATION_CONTROL"] = <<255>>
  /\ NearestHundredth(last.ret) = 124

\* the ordinal of the last enumerator each enumeration defines
EnumLast == [
  VBatLowV |-> 3, CellCount |-> 3, RechargeDeglitchTime |-> 3,
  PrechargeTimer |-> 1, TopOffTimer |-> 3, FastChargeTimer |-> 3,
  BackupModeThresh |-> 3, VACOVP |-> 3, WDT |-> 7, ShipFETmode |-> 3,
  ShipWakeupDelay |-> 1, PWMFrequency |-> 1, BatDischargeA |-> 3,
  VINDPM_VOCpercent |-> 7, VOCdelay |-> 3, VOCrate |-> 3,
  ThermRegulationThresh |-> 3, ThermShutdownThresh |-> 3 ]

\* C7: an enumerated setter called with an ordinal above the last enumerator
\* of its setting returns failure and writes nothing.
C7_EnumRejects ==
  (last.kind = "set" /\ focus \in EnumSettings /\ arg > EnumLast[focus])
    => (~last.ret /\ last.bus = <<>> /\ regs = last.pre)

\* C7 failing case: setBatDischargeA(4) returns success and writes the field.
C7_Reached ==
  /\ last.op = "setBatDischargeA"
  /\ arg = 4
  /\ last.ret
  /\ last.bus # <<>>
  /\ FieldOf(regs, last.field) = 0

\* C8: for every defined enumerator e of an enumerated setting, set(e)
\* succeeds and leaves the ordinal of e in the field, and the getter called
\* afterwards, with no hardware change in between, returns e.
C8_EnumRoundTrip ==
  (focus \in EnumSettings /\ arg <= EnumLast[focus])
    => /\ last.kind = "set" => (last.ret /\ FieldOf(regs, last.field) = arg)
       /\ (last.kind = "get" /\ stored) => last.ret = arg

\* C8 witness: getVINDPM_VOCpercent returned ordinal 5 after it was set.
C8_Witness ==
  /\ last.op = "getVINDPM_VOCpercent"
  /\ stored
  /\ arg = 5
  /\ last.ret = 5

\* the flags whose bit on the chip disables the function
Inverted == {
  "ACenable", "OTGPFM", "ForwardPFM", "BATFETLDOprecharge", "OTGOOA",
  "ForwardOOA", "StatPinEnable", "VSYSshortProtect", "VOTG_UVPProtect" }

\* the bit the chip holds for the logical value b of the flag s
PhysicalBit(s, b) == IF (s \in Inverted) = b THEN 0 ELSE 1

\* C9: a boolean setter leaves the physical bit at the logical value, or at
\* its complement for the nine inverted flags, and the getter called
\* afterwards, with no hardware change in between, returns the value set.
C9_BoolSense ==
  focus \in BoolSettings
    => /\ last.kind = "set"
            => (last.ret /\ FieldOf(regs, last.field) = PhysicalBit(focus, arg))
       /\ (last.kind = "get" /\ stored) => last.ret = arg

\* C9 witness: getACenable returned true, with the physical bit 0, after
\* setACenable(true).
C9_Witness ==
  /\ last.op = "getACenable"
  /\ stored
  /\ arg = TRUE
  /\ last.ret = TRUE
  /\ regs["BQ25798_REG_CHARGER_CONTROL_3"][1] < 128

\* the part-information byte begin() read, or would have read
PartInfo == last.pre["BQ25798_REG_PART_INFORMATION"][1]

\* C10: begin() returns success exactly when the device answers on the bus
\* and bits 5..3 of the part-information register read 011; the other bits of
\* that register do not matter.
C10_BeginOutcome ==
  last.op = "begin" => (last.ret <=> (online /\ (PartInfo % 64) \div 8 = 3))

\* C10 witness: begin() succeeded on a part-information byte with every bit
\* outside bits 5..3 set.
C10_Witness ==
  /\ last.op = "begin"
  /\ last.ret
  /\ PartInfo = 223

\* the positions in a bus log of the transfers of one kind
Transfers(bus, kind) == {i \in DOMAIN bus : bus[i][1] = kind}

\* C11: a begin() that returns failure has written no register: the chip is as
\* it was, the bus log holds no write, and on a bus where nothing answers it
\* holds no read either.
C11_FailedBeginWritesNothing ==
  (last.op = "begin" /\ ~last.ret)
    => /\ regs = last.pre
       /\ Transfers(last.bus, "write") = {}
       /\ ~online => Transfers(last.bus, "read") = {}

\* C11 witness: begin() failed on the identity of a chip that answers, having
\* read the part information, with the reset bit of the chip still 0.
C11_Witness ==
  /\ last.op = "begin"
  /\ ~last.ret
  /\ online
  /\ last.bus = <<BusProbe, BusRead("BQ25798_REG_PART_INFORMATION", 1)>>
  /\ BitsRead(regs, "BQ25798_REG_TERMINATION_CONTROL", 1, "LSBFIRST", 1, 6) = 0


\* positions of the bus log where the session is opened
Opened(bus) == {i \in DOMAIN bus : bus[i] = BusProbe}

\* positions of the bus log where the identity register is read
Identified(bus) == {i \in DOMAIN bus : bus[i] = BusRead("BQ25798_REG_PART_INFORMATION", 1)}

\* C12: a begin() that returns success has issued exactly one register write,
\* the one that sets the reset bit (bit 6 of the termination-control register)
\* to 1 and alters nothing else; the session was opened and the identity
\* register read earlier in the same call, so no write precedes the identity
\* check.
C12_SuccessfulBeginResetsOnce ==
  (last.op = "begin" /\ last.ret)
    => /\ Cardinality(Transfers(last.bus, "write")) = 1
       /\ \A w \in Transfers(last.bus, "write") :
            /\ last.bus[w] = BusWrite("BQ25798_REG_TERMINATION_CONTROL", 1)
            /\ \E o \in Opened(last.bus) : o < w
            /\ \E i \in Identified(last.bus) : i < w
       /\ regs = BitsWrite(last.pre, "BQ25798_REG_TERMINATION_CONTROL", 1, "LSBFIRST", 1, 6, 1)
       /\ BitsRead(regs, "BQ25798_REG_TERMINATION_CONTROL", 1, "LSBFIRST", 1, 6) = 1
       /\ (RegisterRead(last.pre, "BQ25798_REG_PART_INFORMATION", 1, "LSBFIRST") \div 8) % 8 = 3

\* C12 witness: a begin() has succeeded on a chip whose reset bit was clear, and
\* the bit is now set.
C12_Witness ==
  /\ last.op = "begin" /\ last.ret
  /\ BitsRead(last.pre, "BQ25798_REG_TERMINATION_CONTROL", 1, "LSBFIRST", 1, 6) = 0
  /\ BitsRead(regs, "BQ25798_REG_TERMINATION_CONTROL", 1, "LSBFIRST", 1, 6) = 1

\* C13: over construction, any number of begin() calls, whether they succeed
\* or fail, and destruction, at most one device handle exists at a time; while
\* the facade lives the handles in existence are exactly the one it points at
\* (none before the first begin()), so each begin() has deleted the handle it
\* held before taking a new one and every delete hits a handle that still
\* exists; after destruction no handle is left.
C13_HandleOwnership ==
  /\ Cardinality(live) <= 1
  /\ alive => live = (IF i2c_dev = NULL THEN {} ELSE {i2c_dev})
  /\ ~alive => live = {}

\* C13 witness: a facade that had taken a handle in begin() has been destroyed
\* and the handle is gone.
C13_Witness ==
  /\ ~alive
  /\ last.op = "~Adafruit_BQ25798"
  /\ i2c_dev \in Handles
  /\ live = {}

\* C14: every reset() returns success, whether or not its transfers succeed,
\* and is one read followed by one write of the termination-control register;
\* when the write goes through bit 6 of that register reads 1, when both
\* transfers succeed no other bit of the chip has changed, and when the write
\* fails the chip is as it was.
C14_ResetAlwaysSucceeds ==
  LET term == Field("BQ25798_REG_TERMINATION_CONTROL", 1, "LSBFIRST", 1, 6) IN
  last.op = "reset"
    => /\ last.ret = TRUE
       /\ last.bus = <<BusRead(term.reg, 1), BusWrite(term.reg, 1)>>
       /\ "write" \notin last.nack => FieldOf(regs, term) = 1
       /\ last.nack = {} => regs = BitsWrite(last.pre, term.reg, 1, "LSBFIRST", 1, 6, 1)
       /\ "write" \in last.nack => regs = last.pre

\* C14 witness: a reset() whose register write failed has returned success and
\* the reset bit is still clear.
C14_Witness ==
  /\ last.op = "reset"
  /\ last.ret = TRUE
  /\ "write" \in last.nack
  /\ BitsRead(regs, "BQ25798_REG_TERMINATION_CONTROL", 1, "LSBFIRST", 1, 6) = 0

\* C15: reset idempotence.  Every reset() returns success and leaves the reset
\* bit set; a reset() called while an earlier reset is still pending leaves the
\* chip exactly as the earlier one left it; and once the hardware has carried
\* the reset out, however many reset() calls came before, the chip holds the
\* factory defaults with the reset bit reading 0.
C15_ResetIdempotent ==
  LET term == Field("BQ25798_REG_TERMINATION_CONTROL", 1, "LSBFIRST", 1, 6) IN
  /\ last.op = "reset"
       => /\ last.ret = TRUE
          /\ FieldOf(regs, term) = 1
          /\ FieldOf(last.pre, term) = 1 => regs = last.pre
  /\ last.op = "hwReset"
       => /\ FieldOf(last.pre, term) = 1
          /\ regs = FactoryDefaults(last.pre)
          /\ FieldOf(regs, term) = 0

\* C15 witness: a second reset() in succession, called while the first one's
\* reset bit was still set, has returned success and changed nothing.
C15_Witness ==
  /\ last.op = "reset"
  /\ last.ret = TRUE
  /\ BitsRead(last.pre, "BQ25798_REG_TERMINATION_CONTROL", 1, "LSBFIRST", 1, 6) = 1
  /\ regs = last.pre

\* what a getter of the setting s returns when it decodes the chip mem afresh
Fresh(s, mem, f) ==
  IF s \in LinearSettings
    THEN FAdd(FMulInt(RegisterRead(mem, f.reg, f.width, f.byteorder) % Pow2(LinearForm[s].bits),
                      Lit(LinearForm[s].scale, 100)),
              Lit(LinearForm[s].offset, 100))
  ELSE IF s \in EnumSettings THEN FieldOf(mem, f)
  ELSE FieldOf(mem, f) = PhysicalBit(s, TRUE)

\* C16: no caching.  Every getter call is exactly one register read on the
\* bus, and what it returns is decoded from what the chip holds at the time of
\* the call, whatever an earlier call of the same getter returned: after the
\* hardware changed the register between two calls, the second call returns
\* the value of the new contents.
C16_NoCaching ==
  last.kind = "get"
    => /\ last.bus = <<BusRead(last.field.reg, last.field.width)>>
       /\ last.ret = Fresh(focus, regs, last.field)

\* C16 witness: getChargeLimitV was called, the hardware changed the register,
\* and the next getChargeLimitV returned a different value.
C16_Witness ==
  /\ last.op = "getChargeLimitV"
  /\ last.seen # <<>>
  /\ last.seen[1] = "getChargeLimitV"
  /\ last.seen[2] # last.ret
  /\ last.ret = Fresh("ChargeLimitV", regs, last.field)

\* the argument the sketch passes passes the setter's validation: inside the
\* range of a linear setting, a defined enumerator of an enumerated one; flags
\* and the one-shot commands take nothing to validate
Valid ==
  IF focus \in LinearSettings THEN InRange(arg, ClaimedRange[last.op])
  ELSE IF focus \in EnumSettings THEN arg <= EnumLast[focus]
  ELSE TRUE

\* C17: a setter, resetWDT() or reset() returns failure only for an argument
\* that fails validation, and then before any transfer; called with a valid
\* argument it returns success whether its bus read, its bus write, both or
\* neither failed.
C17_OnlyValidationFails ==
  last.kind \in {"set", "reset"}
    => /\ ~last.ret => (~Valid /\ last.bus = <<>> /\ regs = last.pre)
       /\ Valid => last.ret

\* C17 witness: setChargeLimitA, called with a value in range while reads and
\* writes both failed, returned success and the chip is unchanged.
C17_Witness ==
  /\ last.op = "setChargeLimitA"
  /\ InRange(arg, ClaimedRange["setChargeLimitA"])
  /\ last.nack = {"read", "write"}
  /\ last.ret
  /\ last.bus # <<>>
  /\ regs = last.pre

\* C18: failure is never terminal.  A setter that returns failure leaves the
\* chip, the handle and the bus session exactly as they were, so every later
\* call starts from the state it would have started from without the failed
\* call; and a begin() that follows a failed begin() on the same facade
\* returns success when the device now answers and identifies itself.
C18_FailureNotTerminal ==
  [][ /\ (last'.kind = "set" /\ ~last'.ret)
           => UNCHANGED <<regs, i2c_dev, live, alive, online, fault, ctx>>
      /\ (last'.op = "begin" /\ last'.seen = <<"begin", FALSE>> /\ online
            /\ (last'.pre["BQ25798_REG_PART_INFORMATION"][1] % 64) \div 8 = 3)
           => (last'.ret /\ i2c_dev' \in Handles /\ live' = {i2c_dev'})
    ]_vars

\* C18 witness: a begin() that followed a failed begin() on the same facade
\* has returned success.
C18_Witness ==
  /\ last.op = "begin"
  /\ last.ret
  /\ last.seen = <<"begin", FALSE>>
  /\ Usable

\* C20: transaction count.  Every getter call is exactly one bus read of its
\* register and no write; every setter call that is accepted, resetWDT() and
\* reset() included, is exactly one bus read of the target register followed
\* by exactly one bus write of it; nothing else is transferred.
C20_TransactionCount ==
  LET rd == BusRead(last.field.reg, last.field.width)
      wr == BusWrite(last.field.reg, last.field.width)
  IN /\ last.kind = "get" => last.bus = <<rd>>
     /\ (last.kind \in {"set", "reset"} /\ last.ret) => last.bus = <<rd, wr>>

\* C20 failing case: setInputLimitV(3.6f) was accepted and transferred a single
\* register write, with no read before it.
C20_Reached ==
  /\ last.op = "setInputLimitV"
  /\ arg = <<360, 100>>
  /\ last.ret
  /\ last.bus = <<BusWrite("BQ25798_REG_INPUT_VOLTAGE_LIMIT", 1)>>

\* both contexts have finished their setter calls
BothDone == \A c \in Contexts : ctx[c].pc = "done"

\* each of the two fields holds what the context that set it wrote
BothHold ==
  /\ BitsRead(regs, "BQ25798_REG_TIMER_CONTROL", 1, "LSBFIRST", 1, 5) = ctx["A"].data
  /\ BitsRead(regs, "BQ25798_REG_TIMER_CONTROL", 1, "LSBFIRST", 2, 1) = ctx["B"].data

\* C19: two contexts set two different fields of the timer-control register.
\* When the calls run one after the other, in either order, both fields hold
\* the values written, so a field is lost only when the calls overlapped; in
\* any order of the transfers the field written last holds its value.
C19_SequentialKeepsBoth ==
  /\ (BothDone /\ \A c \in Contexts : ~ctx[c].raced) => BothHold
  /\ last.kind = "set" => FieldOf(regs, last.field) = ctx[IF last.op = "setFastChargeTimer" THEN "B" ELSE "A"].data

\* C19 witness: the lost update.  The two calls overlapped, both have
\* returned success, and the trickle-timer bit does not hold what
\* setTrickleChargeTimerEnable wrote.
C19_Witness ==
  /\ BothDone
  /\ \E c \in Contexts : ctx[c].raced
  /\ last.op = "setFastChargeTimer"
  /\ last.ret
  /\ BitsRead(regs, "BQ25798_REG_TIMER_CONTROL", 1, "LSBFIRST", 1, 5) # ctx["A"].data
  /\ BitsRead(regs, "BQ25798_REG_TIMER_CONTROL", 1, "LSBFIRST", 2, 1) = ctx["B"].data

\* C21: whenever a linear setter issues a write, the raw value it hands to the
\* write lies between 0 and the largest value of the setting's field,
\* 2^bits - 1.
C21_RawInField ==
  (last.kind = "set" /\ last.bus # <<>>)
    => /\ Len(last.raw) = 1
       /\ 0 <= last.raw[1]
       /\ last.raw[1] <= Pow2(LinearForm[focus].bits) - 1
       /\ last.field.bits = LinearForm[focus].bits

\* C21 witness: setTerminationA(1.0f) handed 25, of at most 31, to the write
\* of its five-bit field.
C21_Witness ==
  /\ last.op = "setTerminationA"
  /\ arg = <<100, 100>>
  /\ last.bus # <<>>
  /\ last.raw = <<25>>

\* the register of each two-byte setting
TwoByte == [
  ChargeLimitV |-> "BQ25798_REG_CHARGE_VOLTAGE_LIMIT",
  ChargeLimitA |-> "BQ25798_REG_CHARGE_CURRENT_LIMIT",
  InputLimitA |-> "BQ25798_REG_INPUT_CURRENT_LIMIT",
  OTGV |-> "BQ25798_REG_VOTG_REGULATION" ]

\* the 16-bit value of the two bytes the chip mem holds in reg, the byte
\* transferred first being the more significant
Word(mem, reg) == mem[reg][1] * 256 + mem[reg][2]

\* C22: the four two-byte settings treat their register as a 16-bit value
\* whose first byte is the more significant.  The getter decodes that value
\* masked to the low 11 bits (9 for the two current limits); the setter puts
\* the raw value into those low bits and leaves the bits above them as they
\* were read.
C22_TwoByteMsbFirst ==
  focus \in DOMAIN TwoByte
    => LET reg == TwoByte[focus]
           f == LinearForm[focus]
           low == Pow2(IF focus \in {"ChargeLimitA", "InputLimitA"} THEN 9 ELSE 11)
       IN /\ last.kind = "get"
               => last.ret = FAdd(FMulInt(Word(regs, reg) % low, Lit(f.scale, 100)),
                                  Lit(f.offset, 100))
          /\ (last.kind = "set" /\ last.bus # <<>>)
               => /\ Len(regs[reg]) = 2
                  /\ Word(regs, reg) % low = last.raw[1]
                  /\ Word(regs, reg) \div low = Word(last.pre, reg) \div low
                  /\ \A r \in Registers \ {reg} : regs[r] = last.pre[r]

\* C22 witness: setChargeLimitV(3.0f) on a register holding the bytes A5 5A
\* left A1 2C: raw 300 in the low 11 bits, the upper 5 bits as before.
C22_Witness ==
  /\ last.op = "setChargeLimitV"
  /\ arg = <<300, 100>>
  /\ last.pre["BQ25798_REG_CHARGE_VOLTAGE_LIMIT"] = <<165, 90>>
  /\ regs["BQ25798_REG_CHARGE_VOLTAGE_LIMIT"] = <<161, 44>>

\* C23: the field every accessor addresses fits inside its register: the
\* register is one or two bytes wide, as wide as the chip holds it, the field
\* has at least one bit, and bit offset + bit width is at most 8 times the
\* register's width in bytes.
C23_FieldFits ==
  (last.kind \in {"get", "set", "reset"} /\ last.bus # <<>>)
    => /\ last.field.reg \in Registers
       /\ last.field.width \in {1, 2}
       /\ last.field.width = Len(regs[last.field.reg])
       /\ last.field.bits >= 1
       /\ last.field.shift + last.field.bits <= 8 * last.field.width

\* C23 witness: getVINDPM_VOCpercent addressed the three bits 7..5 of its
\* one-byte register, a field that ends exactly at the register's top bit.
C23_Witness ==
  /\ last.op = "getVINDPM_VOCpercent"
  /\ last.bus # <<>>
  /\ last.field.width = 1
  /\ last.field.shift + last.field.bits = 8

\* C24: resetWDT() always returns success and is a read-modify-write of
\* charger-control register 1 that hands 1 to bit 3 and changes nothing else;
\* however often it was called, getWDT(), getVACOVP() and
\* getBackupModeThresh() return bits 2..0, 5..4 and 7..6 of the byte the
\* register held at the start.
C24_ResetWDT ==
  LET cc1 == "BQ25798_REG_CHARGER_CONTROL_1"
      now == regs[cc1][1]
      was == last.pre[cc1][1]
  IN /\ last.op = "resetWDT"
          => /\ last.ret = TRUE
             /\ last.bus = <<BusRead(cc1, 1), BusWrite(cc1, 1)>>
             /\ last.raw = <<1>>
             /\ (now \div 8) % 2 = 1
             /\ now = was - ((was \div 8) % 2) * 8 + 8
             /\ \A r \in Registers \ {cc1} : regs[r] = last.pre[r]
     /\ last.op = "getWDT" => last.ret = arg % 8
     /\ last.op = "getVACOVP" => last.ret = (arg \div 16) % 4
     /\ last.op = "getBackupModeThresh" => last.ret = arg \div 64

\* C24 witness: after resetWDT() set bit 3 of a register that held 0xA5,
\* getWDT() still returned 5.
C24_Witness ==
  /\ arg = 165
  /\ regs["BQ25798_REG_CHARGER_CONTROL_1"] = <<173>>
  /\ last.op = "getWDT"
  /\ last.ret = 5

\* the field each setting occupies: register, width in bytes, byte order, bit
\* width and bit offset
FieldTable == [
  MinSystemV |->
    Field("BQ25798_REG_MINIMAL_SYSTEM_VOLTAGE", 1, "LSBFIRST", 6, 0),
  ChargeLimitV |->
    Field("BQ25798_REG_CHARGE_VOLTAGE_LIMIT", 2, "MSBFIRST", 11, 0),
  ChargeLimitA |->
    Field("BQ25798_REG_CHARGE_CURRENT_LIMIT", 2, "MSBFIRST", 9, 0),
  InputLimitV |->
    Field("BQ25798_REG_INPUT_VOLTAGE_LIMIT", 1, "LSBFIRST", 8, 0),
  InputLimitA |->
    Field("BQ25798_REG_INPUT_CURRENT_LIMIT", 2, "MSBFIRST", 9, 0),
  VBatLowV |->
    Field("BQ25798_REG_PRECHARGE_CONTROL", 1, "LSBFIRST", 2, 6),
  PrechargeLimitA |->
    Field("BQ25798_REG_PRECHARGE_CONTROL", 1, "LSBFIRST", 6, 0),
  StopOnWDT |->
    Field("BQ25798_REG_TERMINATION_CONTROL", 1, "LSBFIRST", 1, 5),
  TerminationA |->
    Field("BQ25798_REG_TERMINATION_CONTROL", 1, "LSBFIRST", 5, 0),
  CellCount |->
    Field("BQ25798_REG_RECHARGE_CONTROL", 1, "LSBFIRST", 2, 6),
  RechargeDeglitchTime |->
    Field("BQ25798_REG_RECHARGE_CONTROL", 1, "LSBFIRST", 2, 4),
  RechargeThreshOffsetV |->
    Field("BQ25798_REG_RECHARGE_CONTROL", 1, "LSBFIRST", 4, 0),
  OTGV |->
    Field("BQ25798_REG_VOTG_REGULATION", 2, "MSBFIRST", 11, 0),
  PrechargeTimer |->
    Field("BQ25798_REG_IOTG_REGULATION", 1, "LSBFIRST", 1, 7),
  OTGLimitA |->
    Field("BQ25798_REG_IOTG_REGULATION", 1, "LSBFIRST", 7, 0),
  TopOffTimer |->
    Field("BQ25798_REG_TIMER_CONTROL", 1, "LSBFIRST", 2, 6),
  TrickleChargeTimerEnable |->
    Field("BQ25798_REG_TIMER_CONTROL", 1, "LSBFIRST", 1, 5),
  PrechargeTimerEnable |->
    Field("BQ25798_REG_TIMER_CONTROL", 1, "LSBFIRST", 1, 4),
  FastChargeTimerEnable |->
    Field("BQ25798_REG_TIMER_CONTROL", 1, "LSBFIRST", 1, 3),
  FastChargeTimer |->
    Field("BQ25798_REG_TIMER_CONTROL", 1, "LSBFIRST", 2, 1),
  TimerHalfRateEnable |->
    Field("BQ25798_REG_TIMER_CONTROL", 1, "LSBFIRST", 1, 0),
  AutoOVPBattDischarge |->
    Field("BQ25798_REG_CHARGER_CONTROL_0", 1, "LSBFIRST", 1, 7),
  ForceBattDischarge |->
    Field("BQ25798_REG_CHARGER_CONTROL_0", 1, "LSBFIRST", 1, 6),
  ChargeEnable |->
    Field("BQ25798_REG_CHARGER_CONTROL_0", 1, "LSBFIRST", 1, 5),
  ICOEnable |->
    Field("BQ25798_REG_CHARGER_CONTROL_0", 1, "LSBFIRST", 1, 4),
  ForceICO |->
    Field("BQ25798_REG_CHARGER_CONTROL_0", 1, "LSBFIRST", 1, 3),
  HIZMode |->
    Field("BQ25798_REG_CHARGER_CONTROL_0", 1, "LSBFIRST", 1, 2),
  TerminationEnable |->
    Field("BQ25798_REG_CHARGER_CONTROL_0", 1, "LSBFIRST", 1, 1),
  BackupModeEnable |->
    Field("BQ25798_REG_CHARGER_CONTROL_0", 1, "LSBFIRST", 1, 0),
  BackupModeThresh |->
    Field("BQ25798_REG_CHARGER_CONTROL_1", 1, "LSBFIRST", 2, 6),
  VACOVP |->
    Field("BQ25798_REG_CHARGER_CONTROL_1", 1, "LSBFIRST", 2, 4),
  resetWDT |->
    Field("BQ25798_REG_CHARGER_CONTROL_1", 1, "LSBFIRST", 1, 3),
  WDT |->
    Field("BQ25798_REG_CHARGER_CONTROL_1", 1, "LSBFIRST", 3, 0),
  ForceDPinsDetection |->
    Field("BQ25798_REG_CHARGER_CONTROL_2", 1, "LSBFIRST", 1, 7),
  AutoDPinsDetection |->
    Field("BQ25798_REG_CHARGER_CONTROL_2", 1, "LSBFIRST", 1, 6),
  HVDCP12VEnable |->
    Field("BQ25798_REG_CHARGER_CONTROL_2", 1, "LSBFIRST", 1, 5),
  HVDCP9VEnable |->
    Field("BQ25798_REG_CHARGER_CONTROL_2", 1, "LSBFIRST", 1, 4),
  HVDCPEnable |->
    Field("BQ25798_REG_CHARGER_CONTROL_2", 1, "LSBFIRST", 1, 3),
  ShipFETmode |->
    Field("BQ25798_REG_CHARGER_CONTROL_2", 1, "LSBFIRST", 2, 1),
  ShipFET10sDelay |->
    Field("BQ25798_REG_CHARGER_CONTROL_2", 1, "LSBFIRST", 1, 0),
  ACenable |->
    Field("BQ25798_REG_CHARGER_CONTROL_3", 1, "LSBFIRST", 1, 7),
  OTGenable |->
    Field("BQ25798_REG_CHARGER_CONTROL_3", 1, "LSBFIRST", 1, 6),
  OTGPFM |->
    Field("BQ25798_REG_CHARGER_CONTROL_3", 1, "LSBFIRST", 1, 5),
  ForwardPFM |->
    Field("BQ25798_REG_CHARGER_CONTROL_3", 1, "LSBFIRST", 1, 4),
  ShipWakeupDelay |->
    Field("BQ25798_REG_CHARGER_CONTROL_3", 1, "LSBFIRST", 1, 3),
  BATFETLDOprecharge |->
    Field("BQ25798_REG_CHARGER_CONTROL_3", 1, "LSBFIRST", 1, 2),
  OTGOOA |->
    Field("BQ25798_REG_CHARGER_CONTROL_3", 1, "LSBFIRST", 1, 1),
  ForwardOOA |->
    Field("BQ25798_REG_CHARGER_CONTROL_3", 1, "LSBFIRST", 1, 0),
  ACDRV2enable |->
    Field("BQ25798_REG_CHARGER_CONTROL_4", 1, "LSBFIRST", 1, 7),
  ACDRV1enable |->
    Field("BQ25798_REG_CHARGER_CONTROL_4", 1, "LSBFIRST", 1, 6),
  PWMFrequency |->
    Field("BQ25798_REG_CHARGER_CONTROL_4", 1, "LSBFIRST", 1, 5),
  StatPinEnable |->
    Field("BQ25798_REG_CHARGER_CONTROL_4", 1, "LSBFIRST", 1, 4),
  VSYSshortProtect |->
    Field("BQ25798_REG_CHARGER_CONTROL_4", 1, "LSBFIRST", 1, 3),
  VOTG_UVPProtect |->
    Field("BQ25798_REG_CHARGER_CONTROL_4", 1, "LSBFIRST", 1, 2),
  VINDPMdetection |->
    Field("BQ25798_REG_CHARGER_CONTROL_4", 1, "LSBFIRST", 1, 1),
  IBUS_OCPenable |->
    Field("BQ25798_REG_CHARGER_CONTROL_4", 1, "LSBFIRST", 1, 0),
  ShipFETpresent |->
    Field("BQ25798_REG_CHARGER_CONTROL_5", 1, "LSBFIRST", 1, 7),
  BatDischargeSenseEnable |->
    Field("BQ25798_REG_CHARGER_CONTROL_5", 1, "LSBFIRST", 1, 5),
  BatDischargeA |->
    Field("BQ25798_REG_CHARGER_CONTROL_5", 1, "LSBFIRST", 2, 3),
  IINDPMenable |->
    Field("BQ25798_REG_CHARGER_CONTROL_5", 1, "LSBFIRST", 1, 2),
  ExtILIMpin |->
    Field("BQ25798_REG_CHARGER_CONTROL_5", 1, "LSBFIRST", 1, 1),
  BatDischargeOCPenable |->
    Field("BQ25798_REG_CHARGER_CONTROL_5", 1, "LSBFIRST", 1, 0),
  VINDPM_VOCpercent |->
    Field("BQ25798_REG_MPPT_CONTROL", 1, "LSBFIRST", 3, 5),
  VOCdelay |->
    Field("BQ25798_REG_MPPT_CONTROL", 1, "LSBFIRST", 2, 3),
  VOCrate |->
    Field("BQ25798_REG_MPPT_CONTROL", 1, "LSBFIRST", 2, 1),
  MPPTenable |->
    Field("BQ25798_REG_MPPT_CONTROL", 1, "LSBFIRST", 1, 0),
  ThermRegulationThresh |->
    Field("BQ25798_REG_TEMPERATURE_CONTROL", 1, "LSBFIRST", 2, 6),
  ThermShutdownThresh |->
    Field("BQ25798_REG_TEMPERATURE_CONTROL", 1, "LSBFIRST", 2, 4),
  VBUSpulldown |->
    Field("BQ25798_REG_TEMPERATURE_CONTROL", 1, "LSBFIRST", 1, 3),
  VAC1pulldown |->
    Field("BQ25798_REG_TEMPERATURE_CONTROL", 1, "LSBFIRST", 1, 2),
  VAC2pulldown |->
    Field("BQ25798_REG_TEMPERATURE_CONTROL", 1, "LSBFIRST", 1, 1),
  BackupACFET1on |->
    Field("BQ25798_REG_TEMPERATURE_CONTROL", 1, "LSBFIRST", 1, 0),
  reset |->
    Field("BQ25798_REG_TERMINATION_CONTROL", 1, "LSBFIRST", 1, 6) ]

\* the bit positions of its register the field f covers
BitsOf(f) == f.shift..(f.shift + f.bits - 1)

\* the pairs of distinct settings whose fields share a bit of one register
Overlapping ==
  {p \in (DOMAIN FieldTable) \X (DOMAIN FieldTable) :
     /\ p[1] # p[2]
     /\ FieldTable[p[1]].reg = FieldTable[p[2]].reg
     /\ BitsOf(FieldTable[p[1]]) \cap BitsOf(FieldTable[p[2]]) # {}}

\* the settings that have a getter
Gettable == DOMAIN FieldTable \ OneShots

\* C25: field independence.  Every accessor addresses the field of its own
\* setting, no two distinct settings share a bit of a register, and after a
\* setter of one setting has written, the getter of every other setting
\* decodes the same value from the chip as before the call (reset(), whose
\* bit makes the chip restore every register, is not a setting).
C25_FieldIndependence ==
  /\ Overlapping = {}
  /\ (last.kind \in {"get", "set", "reset"} /\ last.bus # <<>>)
       => last.field = FieldTable[focus]
  /\ (last.kind = "set" /\ last.bus # <<>>)
       => \A b \in Gettable \ {focus} :
            Fresh(b, regs, FieldTable[b]) = Fresh(b, last.pre, FieldTable[b])

\* C25 witness: setFastChargeTimer changed bits 2..1 of the timer-control
\* register while every other bit of it, each belonging to another setting,
\* was set and stayed set.
C25_Witness ==
  /\ last.op = "setFastChargeTimer"
  /\ last.ret
  /\ last.pre["BQ25798_REG_TIMER_CONTROL"] = <<255>>
  /\ regs["BQ25798_REG_TIMER_CONTROL"] = <<251>>

\* the width in bits of the integer type each linear setter casts its quotient
\* to, and the largest quotient an accepted input gives
CastBits == [
  MinSystemV |-> 8, ChargeLimitV |-> 16, ChargeLimitA |-> 16, InputLimitV |-> 8,
  InputLimitA |-> 16, PrechargeLimitA |-> 8, TerminationA |-> 8,
  RechargeThreshOffsetV |-> 8, OTGV |-> 16, OTGLimitA |-> 8 ]

LargestQuotient == [
  MinSystemV |-> 54, ChargeLimitV |-> 1880, ChargeLimitA |-> 500, InputLimitV |-> 220,
  InputLimitA |-> 330, PrechargeLimitA |-> 50, TerminationA |-> 25,
  RechargeThreshOffsetV |-> 15, OTGV |-> 1920, OTGLimitA |-> 84 ]

\* (input - offset) / scale of the setting s, evaluated in float and truncated
Quotient(s) ==
  FTrunc(FDiv(FSub(ArgFloat, Lit(LinearForm[s].offset, 100)), Lit(LinearForm[s].scale, 100)))

\* C26: for every input a linear setter accepts, the truncated quotient
\* (input - offset) / scale is not negative, fits the integer type it is cast
\* to, and is at most the largest quotient of the setting, which is at most
\* 2^bits - 1; so the value handed to the write is the quotient itself,
\* unchanged by the cast and by the clamp.
C26_ClampNeverActs ==
  (last.kind = "set" /\ last.ret)
    => LET q == Quotient(focus) IN
         /\ 0 <= q
         /\ q < Pow2(CastBits[focus])
         /\ q <= LargestQuotient[focus]
         /\ LargestQuotient[focus] <= Pow2(LinearForm[focus].bits) - 1
         /\ last.raw = <<q>>

\* C26 witness: setRechargeThreshOffsetV(0.8f) gave the quotient 15, the
\* largest value of its four-bit field, and 15 was handed to the write.
C26_Witness ==
  /\ last.op = "setRechargeThreshOffsetV"
  /\ arg = <<80, 100>>
  /\ last.ret
  /\ Quotient("RechargeThreshOffsetV") = 15
  /\ last.raw = <<15>>

\* the smallest value of the setting s, as a float
MinValue(s) == Lit(LinearRange[s][1], 100)

\* C27: a programmed limit never exceeds the requested one.  After a linear
\* setter has accepted v, the getter called with no hardware change in between
\* returns g with minValue <= g <= v, compared as floats.
C27_NeverAboveRequest ==
  (last.kind = "get" /\ stored)
    => /\ FLe(MinValue(focus), last.ret)
       /\ FLe(last.ret, ArgFloat)

\* C27 failing case: after setChargeLimitA(0.05f), the smallest valid input,
\* getChargeLimitA() returned 5 * 0.01f, a float below 0.05f and so below the
\* valid range.
C27_Reached ==
  /\ last.op = "getChargeLimitA"
  /\ stored
  /\ arg = <<5, 100>>
  /\ FieldOf(regs, last.field) = 5
  /\ FLt(last.ret, MinValue("ChargeLimitA"))
  /\ FLt(last.ret, ArgFloat)

\* C28: a begin() call, whether it succeeds or fails, leaves the handle
\* non-null, and a non-null handle never becomes null again; so every accessor
\* call that follows a begin() goes through a non-null handle, and a call that
\* goes through the null handle happens only while no begin() has returned.
C28_HandleNonNull ==
  [][ /\ last'.op = "begin" => i2c_dev' # NULL
      /\ i2c_dev # NULL => i2c_dev' # NULL
      /\ last'.kind \in {"get", "set", "reset"} => i2c_dev' # NULL
      /\ last'.kind = "ub" => (i2c_dev' = NULL /\ last.kind \in {"ctor", "ub"})
    ]_vars

\* C28 witness: an accessor ran through a non-null handle after a begin() that
\* failed on the identity check.
C28_Witness ==
  /\ last.op = "getMinSystemV"
  /\ last.kind = "get"
  /\ (last.pre["BQ25798_REG_PART_INFORMATION"][1] % 64) \div 8 # 3
  /\ i2c_dev # NULL
  /\ alive

\* the enumerated setters that pass their argument on without a domain test
Unchecked ==
  {"BatDischargeA", "VOCdelay", "VOCrate", "ThermRegulationThresh",
   "ThermShutdownThresh", "VINDPM_VOCpercent"}

\* C29: the enumerated setters without a domain test return success for every
\* ordinal; the field then holds the low bitWidth bits of the ordinal, and the
\* bits of the register outside the field hold what they held before, also
\* when the ordinal does not fit the field.
C29_UncheckedMasked ==
  (last.kind = "set" /\ focus \in Unchecked)
    => /\ last.ret
       /\ FieldOf(regs, FieldTable[focus]) = arg % Pow2(EnumBits[focus])
       /\ Outside(regs, FieldTable[focus]) = Outside(last.pre, FieldTable[focus])

\* C29 witness: setVOCdelay(5), which does not fit two bits, left 1 in the
\* field and kept the other bits of a register that had bit 5 clear and other
\* bits set.
C29_Witness ==
  /\ last.op = "setVOCdelay"
  /\ arg = 5
  /\ last.ret
  /\ FieldOf(regs, FieldTable["VOCdelay"]) = 1
  /\ (last.pre["BQ25798_REG_MPPT_CONTROL"][1] \div 32) % 2 = 0
  /\ Outside(last.pre, FieldTable["VOCdelay"]) # 0
  /\ Outside(regs, FieldTable["VOCdelay"]) = Outside(last.pre, FieldTable["VOCdelay"])
====
